---------------------------- MODULE Spec2Model ----------------------------
(***************************************************************************)
(* Matrix_Path: the eigendecomposition evaluator (src/utils/mathUtils.ts)  *)
(* and the sampling / path-building pipeline of the App component          *)
(* (src/unnamed/part_000).                                                 *)
(*                                                                         *)
(* Numbers.  A JavaScript number is modelled as an exact rational <<n,d>>  *)
(* in lowest terms with d > 0; the three non-finite numbers are <<1,0>>    *)
(* (Infinity), <<-1,0>> (-Infinity) and <<0,0>> (NaN).  Arithmetic is      *)
(* exact, so "equal within floating tolerance" reads as equality.          *)
(* null is the empty tuple <<>>; a present value x is <<x>>.               *)
(***************************************************************************)
EXTENDS Integers, Sequences, FiniteSets, TLC

VARIABLES
    matrixA,         \* the base matrix handed to createMatrixEvaluator
    evaluator,       \* Null (construction failed) or <<[eigenValues, P, Pinv]>>
    cache,           \* the closure's Map<string, Map<number, Matrix3>>
    allocated,       \* per (mode, key) the number of matrix objects created so far
    firstTime,       \* ghost: per (mode, key) the time of the first call
    firstMatrix,     \* ghost: per (mode, key) what the first getMatrixAt returned
    last             \* ghost: the latest evaluator call and what it returned (ret: the
                     \* matrix of getMatrixAt, vec: the vector of applyToVector)

evalVars == <<matrixA, evaluator, cache, allocated, firstTime, firstMatrix, last>>

VARIABLES
    animationConfig, \* [startT, endT] of the animationConfig state
    tPrecision,      \* the tPrecision state
    samplingConfig   \* the samplingConfig memo: Null before it ran, else
                     \* <<[times, range, totalSteps]>>

planVars == <<animationConfig, tPrecision, samplingConfig>>

VARIABLES
    vectors,                  \* the vectors state: a sequence of [id, value, visible]
    activation,               \* [name, customFnStr, currentFn, error]
    linearEigenInterpolation, \* the linearEigenInterpolation state
    matrixSamples,            \* the matrixSamples memo: Null, or <<samples>>
    vectorTransformationsResult \* the memo: [transformations, error]

pipeVars == <<vectors, activation, linearEigenInterpolation, matrixSamples,
              vectorTransformationsResult>>

VARIABLES
    currentT,             \* the t state (t is the time parameter of the operators)
    walls,                \* the walls state: a sequence of [id, axis, position]
    sceneData,            \* the sceneData memo: one entry per visible vector
    wallContactCounts,    \* the wallContactCounts memo: wall id -> count
    effectiveEigenvalues, \* the memo: Null or <<eigenvalues>>
    matrixAt,             \* the memo: Null or <<matrix object>>
    matrixAtEigenvalues,  \* the memo: Null or <<eigenvalues>>
    rawTransformedV       \* the memo: Null or <<vector>>

sceneState == <<currentT, walls>>
sceneVars == <<sceneState, sceneData, wallContactCounts, effectiveEigenvalues, matrixAt,
               matrixAtEigenvalues, rawTransformedV>>

VARIABLES
    matrixScalar,         \* the matrixScalar state
    matrixExponent,       \* the matrixExponent state
    normalizeMatrix,      \* the normalizeMatrix state
    normalizationWarning, \* the normalizationWarning state: Null or <<message>>
    normalizationRequest  \* ghost: Null, or <<how>> when the latest user change
                          \* asked for normalization while |det| < 1e-8

normVars == <<matrixScalar, matrixExponent, normalizeMatrix, normalizationWarning,
              normalizationRequest>>

VARIABLES
    contactCall           \* a call of computeContact: Null, or its arguments
                          \* [wall, current, previous] with called and result

VARIABLES
    isPlaying,             \* the isPlaying state
    repeatAnimation,       \* the repeatAnimation state
    animationFrameRef,     \* animationFrameRef.current: Null or <<frame id>>
    animationStartRef,     \* animationStartRef.current: Null or <<timestamp>>
    animationDirectionRef, \* animationDirectionRef.current: 1 or -1
    pendingFrames,         \* the callbacks requestAnimationFrame holds, each
                           \* [id, config, repeat] with the closure of its effect
    frameTime,             \* the timestamp of the latest frame, in ms
    lastUser               \* ghost: the latest user action [action, value] and
                           \* the number of frames run since (at most 2)

animState == <<isPlaying, repeatAnimation, animationFrameRef, animationStartRef,
               animationDirectionRef, pendingFrames, frameTime>>
animVars == <<animState, lastUser>>

uiVars == <<sceneVars, normVars, contactCall, animVars>>

vars == <<evalVars, planVars, pipeVars, uiVars>>

-----------------------------------------------------------------------------
(* Exact arithmetic on JavaScript numbers                                  *)

Null == <<>>

NaN == <<0, 0>>
PosInfinity == <<1, 0>>
NegInfinity == <<-1, 0>>
NonFinite == {NaN, PosInfinity, NegInfinity}

\* Op applied to operands that are each evaluated once: an operand bound as
\* the element of a singleton set is a value, however often Op reads it
Once1(Op(_), a0) == CHOOSE r \in {Op(a) : a \in {a0}} : TRUE
Once2(Op(_, _), a0, b0) == CHOOSE r \in {Op(a, b) : a \in {a0}, b \in {b0}} : TRUE
Once3(Op(_, _, _), a0, b0, c0) ==
    CHOOSE r \in {Op(a, b, c) : a \in {a0}, b \in {b0}, c \in {c0}} : TRUE

Abs(n) == IF n < 0 THEN -n ELSE n

RECURSIVE GCD(_, _)
GCD(a, b) == IF b = 0 THEN a ELSE GCD(b, a % b)

\* the rational n/d (d # 0) in lowest terms with a positive denominator
RatBy(n, d, g) == IF d < 0 THEN <<(-n) \div g, (-d) \div g>> ELSE <<n \div g, d \div g>>
Rat(n, d) == Once3(RatBy, n, d, GCD(Abs(n), Abs(d)))

Num(k) == <<k, 1>>
Zero == Num(0)
One == Num(1)

IsFinite(x) == x[2] # 0

RNeg(x) == <<-x[1], x[2]>>

\* IEEE addition: NaN absorbs, Infinity + (-Infinity) is NaN
AddFinite(x, y, l) == Rat(x[1] * (l \div x[2]) + y[1] * (l \div y[2]), l)
RAddV(x, y) ==
    IF x = NaN \/ y = NaN THEN NaN
    ELSE IF ~IsFinite(x) THEN (IF IsFinite(y) \/ y = x THEN x ELSE NaN)
    ELSE IF ~IsFinite(y) THEN y
    ELSE Once3(AddFinite, x, y, (x[2] \div GCD(x[2], y[2])) * y[2])
RAdd(x, y) == Once2(RAddV, x, y)

RSub(x, y) == RAdd(x, RNeg(y))

Sign(x) == IF x[1] > 0 THEN 1 ELSE IF x[1] < 0 THEN -1 ELSE 0

\* IEEE multiplication: NaN absorbs, Infinity * 0 is NaN
MulReduced(a, b) == <<a[1] * b[1], a[2] * b[2]>>
RMulV(x, y) ==
    IF x = NaN \/ y = NaN THEN NaN
    ELSE IF ~IsFinite(x) \/ ~IsFinite(y)
    THEN <<Sign(x) * Sign(y), 0>>
    ELSE Once2(MulReduced, Rat(x[1], y[2]), Rat(y[1], x[2]))
RMul(x, y) == Once2(RMulV, x, y)

\* 1 / x: 1 / 0 is Infinity, 1 / Infinity is 0
RInvV(x) ==
    IF x = NaN THEN NaN
    ELSE IF ~IsFinite(x) THEN <<0, 1>>
    ELSE IF x[1] = 0 THEN <<1, 0>>
    ELSE Rat(x[2], x[1])
RInv(x) == Once1(RInvV, x)

RDiv(x, y) == RMul(x, RInv(y))

\* comparisons: every comparison with NaN is false
RLessV(x, y) == x # NaN /\ y # NaN /\ x # y /\ Sign(RSub(x, y)) < 0
RLess(x, y) == Once2(RLessV, x, y)
RLeq(x, y) == Once2(RLessV, x, y) \/ (x = y /\ x # NaN)

\* Math.min of two numbers
RMinV(x, y) ==
    IF x = NaN \/ y = NaN THEN NaN ELSE IF RLess(y, x) THEN y ELSE x
RMin(x, y) == Once2(RMinV, x, y)

Floor(x) == x[1] \div x[2]
\* Math.floor and Math.abs as numbers: NaN and the infinities pass through
FloorNum(x) == IF IsFinite(x) THEN Num(Floor(x)) ELSE x
RAbs(x) == IF x[1] < 0 THEN RNeg(x) ELSE x
\* Math.abs(x) > 1 / k and Math.abs(x) < 1 / k for a positive integer k,
\* computed by division so that k times a numerator is never formed
AbsAbove(x, k) ==
    IF x = NaN THEN FALSE
    ELSE IF ~IsFinite(x) THEN TRUE
    ELSE x[1] # 0 /\ x[2] \div Abs(x[1]) < k
AbsBelow(x, k) ==
    IF ~IsFinite(x) THEN FALSE
    ELSE \/ x[1] = 0
         \/ x[2] \div Abs(x[1]) > k
         \/ x[2] \div Abs(x[1]) = k /\ x[2] % Abs(x[1]) # 0
Ceil(x) == -((-x[1]) \div x[2])

\* Math.ceil and Math.max as numbers: NaN and the infinities pass through
CeilNum(x) == IF IsFinite(x) THEN Num(Ceil(x)) ELSE x
RMaxV(x, y) ==
    IF x = NaN \/ y = NaN THEN NaN ELSE IF RLess(x, y) THEN y ELSE x
RMax(x, y) == Once2(RMaxV, x, y)

RECURSIVE IntPow(_, _)
IntPow(x, n) == IF n = 0 THEN One ELSE RMul(x, IntPow(x, n - 1))

\* x^n for an integer n of either sign
IntPowSigned(x, n) == IF n >= 0 THEN IntPow(x, n) ELSE RInv(IntPow(x, -n))

-----------------------------------------------------------------------------
(* 3x3 matrices and vectors (mathjs matrix operations)                     *)

Idx == 1..3

\* Rows and matrices are built as explicit tuples, so each entry is computed once.
Tuple3(F(_)) == <<F(1), F(2), F(3)>>

Mat3(F(_, _)) ==
    <<<<F(1, 1), F(1, 2), F(1, 3)>>,
      <<F(2, 1), F(2, 2), F(2, 3)>>,
      <<F(3, 1), F(3, 2), F(3, 3)>>>>

Identity3 ==
    <<<<One, Zero, Zero>>, <<Zero, One, Zero>>, <<Zero, Zero, One>>>>

Sum3(f) == RAdd(RAdd(f[1], f[2]), f[3])

\* math.multiply on two 3x3 matrices
MatMulV(X, Y) ==
    LET Entry(i, j) ==
            RAdd(RAdd(RMul(X[i][1], Y[1][j]), RMul(X[i][2], Y[2][j])),
                 RMul(X[i][3], Y[3][j]))
    IN  Mat3(Entry)
MatMul(X, Y) == Once2(MatMulV, X, Y)

\* math.multiply(matrix, scalar), entrywise
MatScaleV(X, s) ==
    LET Entry(i, j) == RMul(X[i][j], s)
    IN  Mat3(Entry)
MatScale(X, s) == Once2(MatScaleV, X, s)

MatAddV(X, Y) ==
    LET Entry(i, j) == RAdd(X[i][j], Y[i][j])
    IN  Mat3(Entry)
MatAdd(X, Y) == Once2(MatAddV, X, Y)

\* math.transpose of a k x 3 array of row vectors: a 3 x k matrix
TransposeV(rows) ==
    LET Col(i) == IF Len(rows) = 3 THEN <<rows[1][i], rows[2][i], rows[3][i]>>
                  ELSE IF Len(rows) = 2 THEN <<rows[1][i], rows[2][i]>>
                  ELSE IF Len(rows) = 1 THEN <<rows[1][i]>>
                  ELSE <<>>
    IN  Tuple3(Col)
Transpose(rows) == Once1(TransposeV, rows)

\* math.diag
DiagV(d) ==
    <<<<d[1], Zero, Zero>>, <<Zero, d[2], Zero>>, <<Zero, Zero, d[3]>>>>
Diag(d) == Once1(DiagV, d)

Next3(i) == (i % 3) + 1

\* cofactor of entry (i, j) of a 3x3 matrix, cyclic-index form
Cofactor(X, i, j) ==
    LET i1 == Next3(i)
        i2 == Next3(i1)
        j1 == Next3(j)
        j2 == Next3(j1)
    IN  RSub(RMul(X[i1][j1], X[i2][j2]), RMul(X[i1][j2], X[i2][j1]))

\* math.det
DetV(X) ==
    RAdd(RAdd(RMul(X[1][1], Cofactor(X, 1, 1)), RMul(X[1][2], Cofactor(X, 1, 2))),
         RMul(X[1][3], Cofactor(X, 1, 3)))
Det(X) == Once1(DetV, X)

IsSquare3(X) == \A i \in Idx : Len(X[i]) = 3

\* the inverse of a square matrix with determinant d # 0: adjugate / d
InvWith(X, d) ==
    LET Entry(i, j) == RDiv(Cofactor(X, j, i), d)
    IN  Mat3(Entry)

\* math.inv throws for a non-square or singular matrix: the model returns Null
InvBy(X, d) == IF d = Zero THEN Null ELSE <<InvWith(X, d)>>
InvV(X) == IF ~IsSquare3(X) THEN Null ELSE Once2(InvBy, X, Det(X))
Inv(X) == Once1(InvV, X)

MultiplyRows(matrix, vector) ==
    LET Row(i) ==
            RAdd(RAdd(RMul(matrix[i][1], vector[1]), RMul(matrix[i][2], vector[2])),
                 RMul(matrix[i][3], vector[3]))
    IN  Tuple3(Row)
multiplyMatrixVector(matrix, vector) == Once2(MultiplyRows, matrix, vector)

-----------------------------------------------------------------------------
(* src/utils/mathUtils.ts                                                  *)

\* toReal: the real component of a value.  Every spectrum of the model is
\* real, so the value is its own real component.
toReal(val) == <<val[1], val[2]>>

\* math.pow(value, t) for a positive real base.  An integer exponent is
\* computed exactly.  A fractional power is irrational; it is represented by
\* the point of the chord between the two neighbouring integer powers, which
\* agrees with pow at the integers, is constant for base 1 and is strictly
\* monotone in t for every other base, as pow is.
Chord(t, lo, hi) == RAdd(lo, RMul(RSub(t, Num(Floor(t))), RSub(hi, lo)))
PowV(value, t) ==
    IF t = NaN \/ value = NaN THEN NaN
    ELSE IF ~IsFinite(t)
    THEN IF value = One THEN NaN
         ELSE IF RLess(One, value) = (t = PosInfinity) THEN PosInfinity ELSE Zero
    ELSE IF t[2] = 1 THEN IntPowSigned(value, t[1])
    ELSE Once3(Chord, t, IntPowSigned(value, Floor(t)), IntPowSigned(value, Floor(t) + 1))
Pow(value, t) == Once2(PowV, value, t)

\* variant: the linear blend with its two weights exchanged
interpolateEigenvalue_SwappedBlend(value, t, linear) ==
    IF linear
    THEN RAdd(RMul(value, RSub(One, t)), RMul(t, One))
    ELSE Pow(value, t)

\* interpolateEigenvalue(value, t, options); `linear` is
\* options?.linearEigenInterpolation (absent options read as FALSE)
interpolateEigenvalue(value, t, linear) ==
    IF linear
    THEN RAdd(RMul(value, t), RMul(RSub(One, t), One))
    ELSE Pow(value, t)

optionKey(linear) == IF linear THEN "linear" ELSE "pow"

\* toFixed(6) works in units of 10^-6
KeyScale == 1000000

\* Number(t.toFixed(6)): t rounded to 6 decimals, ties away from zero
\* (toFixed picks the larger n for the magnitude); NaN for a non-finite t
\* the magnitude a/d rounded to a multiple of 1/KeyScale, g = gcd(d, KeyScale)
RoundMagnitude(a, d, g) ==
    RAdd(Num(a \div d),
         Rat((2 * (a % d) * (KeyScale \div g) + (d \div g)) \div (2 * (d \div g)), KeyScale))
timeKeyV(t) ==
    IF ~IsFinite(t) THEN NaN
    ELSE IF t[1] < 0
    THEN RNeg(Once3(RoundMagnitude, -t[1], t[2], GCD(t[2], KeyScale)))
    ELSE Once3(RoundMagnitude, t[1], t[2], GCD(t[2], KeyScale))
\* variant: a non-finite time keyed as 0
timeKey_NonFiniteAsZero(t) == IF IsFinite(t) THEN Once1(timeKeyV, t) ELSE Zero

timeKey(t) == Once1(timeKeyV, t)

\* createMatrixEvaluator(A) given what math.eigs(A) returned: Null when the
\* eigenvectors are missing or math.inv(P) throws (caught by the try block)
\* variant: the eigenvectors taken as the rows of P (no transpose)
createMatrixEvaluator_RowsAsP(A, eigs) ==
    IF eigs.eigenvectors = Null THEN Null
    ELSE IF Len(eigs.eigenvectors) # 3 \/ Inv(eigs.eigenvectors) = Null THEN Null
    ELSE <<[eigenValues |-> eigs.values, P |-> eigs.eigenvectors,
            Pinv |-> Inv(eigs.eigenvectors)[1]]>>

MakeEvaluator(eigenValues, P, Pinv) ==
    IF Pinv = Null THEN Null
    ELSE <<[eigenValues |-> eigenValues, P |-> P, Pinv |-> Pinv[1]]>>
WithInverse(eigenValues, P) == Once3(MakeEvaluator, eigenValues, P, Inv(P))
createMatrixEvaluator(A, eigs) ==
    IF eigs.eigenvectors = Null THEN Null
    ELSE Once2(WithInverse, eigs.values, Transpose(eigs.eigenvectors))

\* lines 81-89 of getOrCreateMatrix: P * diag(interpolated eigenvalues) * Pinv,
\* real parts taken
RealParts(At) ==
    LET Real(i, j) == toReal(At[i][j])
    IN  Mat3(Real)
ComputeMatrix(ev, t, linear) ==
    LET Lambda(i)  == interpolateEigenvalue(ev.eigenValues[i], t, linear)
        diagValues == Tuple3(Lambda)
        Dt         == Diag(diagValues)
    IN  Once1(RealParts, MatMul(MatMul(ev.P, Dt), ev.Pinv))

NoCache == [k \in {} |-> <<>>]

\* getOrCreateMatrix(t, options) on an evaluator `ev` whose cache is `c`:
\* the value returned, the cache afterwards, and whether the matrix was
\* computed.  A matrix object is [id, value]: `new Array` makes an object
\* distinct from every earlier one, so its id is <<mode, key, n>> for the
\* n-th matrix created under that mode and key, `al` counting the creations.
Created(al, k, tKey) == IF <<k, tKey>> \in DOMAIN al THEN al[<<k, tKey>>] ELSE 0
CountCreation(al, k, tKey) ==
    [x \in DOMAIN al \cup {<<k, tKey>>} |->
        IF x = <<k, tKey>> THEN Created(al, k, tKey) + 1 ELSE al[x]]
WithEntry(optionCache, tKey, realMatrix) ==
    [x \in DOMAIN optionCache \cup {tKey} |->
        IF x = tKey THEN realMatrix ELSE optionCache[x]]
WithOptionCache(c, k) ==
    IF k \in DOMAIN c THEN c
    ELSE [x \in DOMAIN c \cup {k} |-> IF x = k THEN NoCache ELSE c[x]]
LookupOrCompute(ev, c1, al, t, linear, tKey) ==
    IF ~IsFinite(tKey)
    THEN [ret |-> Null, cache |-> c1, allocated |-> al, computed |-> FALSE]
    ELSE IF tKey \in DOMAIN c1[optionKey(linear)]
    THEN [ret |-> <<c1[optionKey(linear)][tKey]>>, cache |-> c1, allocated |-> al,
          computed |-> FALSE]
    ELSE \* realMatrix, stored under tKey and returned
         CHOOSE r \in
            {[ret |-> <<realMatrix>>,
              cache |-> [c1 EXCEPT ![optionKey(linear)] = WithEntry(@, tKey, realMatrix)],
              allocated |-> CountCreation(al, optionKey(linear), tKey),
              computed |-> TRUE] :
                realMatrix \in
                    {[id |-> <<optionKey(linear), tKey,
                               Created(al, optionKey(linear), tKey) + 1>>,
                      value |-> ComputeMatrix(ev, t, linear)]}} : TRUE
\* variant: the cache keyed by the time as given, not rounded
getOrCreateMatrix_RawKey(ev, c, al, t, linear) ==
    CHOOSE r \in
        {LookupOrCompute(ev, c1, al, t, linear, tKey) :
            c1 \in {WithOptionCache(c, optionKey(linear))},
            tKey \in {IF IsFinite(t) THEN t ELSE NaN}} : TRUE

getOrCreateMatrix(ev, c, al, t, linear) ==
    CHOOSE r \in
        {LookupOrCompute(ev, c1, al, t, linear, tKey) :
            c1 \in {WithOptionCache(c, optionKey(linear))}, tKey \in {timeKey(t)}} : TRUE

\* applyToVector(t, v, options), as the same kind of record
ApplyMatrix(mat, v) ==
    IF mat.ret = Null THEN mat
    ELSE [mat EXCEPT !.ret = <<multiplyMatrixVector(mat.ret[1].value, v)>>]
applyToVector(ev, c, al, t, v, linear) ==
    Once2(ApplyMatrix, getOrCreateMatrix(ev, c, al, t, linear), v)

-----------------------------------------------------------------------------
(* math.eigs, by its contract                                              *)

Frac(n, d) == Rat(n, d)

Vec(a, b, c) == <<Num(a), Num(b), Num(c)>>

\* presets of PRESET_MATRICES with rational entries, and one custom matrix
\* that is diagonalizable without being diagonal
ShearMatrix == <<Vec(1, 1, 0), Vec(0, 1, 0), Vec(0, 0, 1)>>
ScaleNonUniform == <<<<Frac(3, 2), Zero, Zero>>, <<Zero, Frac(1, 2), Zero>>, Vec(0, 0, 1)>>
CustomMatrix == <<Vec(1, 1, 0), Vec(0, 2, 0), Vec(0, 0, 3)>>

EvalMatrices == {ShearMatrix, ScaleNonUniform, CustomMatrix}

EigenvalueCandidates == {Frac(1, 2), One, Frac(3, 2), Num(2), Num(3)}

EigenvectorPool ==
    {Vec(a, b, c) : a \in 0..1, b \in 0..1, c \in 0..1} \ {Vec(0, 0, 0)}

Trace(X) == RAdd(RAdd(X[1][1], X[2][2]), X[3][3])

\* sum of the principal 2x2 minors
Minor2(X) == RAdd(RAdd(Cofactor(X, 1, 1), Cofactor(X, 2, 2)), Cofactor(X, 3, 3))

\* the spectrum of A, the roots of its characteristic polynomial with
\* multiplicity, in the order math.eigs lists them (ascending)
Spectra(A) ==
    {vals \in EigenvalueCandidates \X EigenvalueCandidates \X EigenvalueCandidates :
        /\ RLeq(vals[1], vals[2]) /\ RLeq(vals[2], vals[3])
        /\ Sum3(vals) = Trace(A)
        /\ RAdd(RAdd(RMul(vals[1], vals[2]), RMul(vals[1], vals[3])),
                RMul(vals[2], vals[3])) = Minor2(A)
        /\ RMul(RMul(vals[1], vals[2]), vals[3]) = Det(A)}

IsEigenpair(A, value, vector) ==
    multiplyMatrixVector(A, vector) =
        <<RMul(value, vector[1]), RMul(value, vector[2]), RMul(value, vector[3])>>

\* what math.eigs(A) may return: the eigenvalues and, for each,
\* an eigenvector ({value, vector}.vector); for a repeated vector the list may
\* come back shorter, and the eigenvectors may be missing altogether
Eigenvectors(A, value) == {v \in EigenvectorPool : IsEigenpair(A, value, v)}

EigsResults(A) ==
    LET full == UNION {
                  {[values |-> vals, eigenvectors |-> <<v1, v2, v3>>] :
                      v1 \in Eigenvectors(A, vals[1]),
                      v2 \in Eigenvectors(A, vals[2]),
                      v3 \in Eigenvectors(A, vals[3])} : vals \in Spectra(A)}
    IN  full
        \cup {[r EXCEPT !.eigenvectors = SubSeq(r.eigenvectors, 1, 2)] :
                r \in {q \in full : q.eigenvectors[3] \in {q.eigenvectors[1], q.eigenvectors[2]}}}
        \cup {[values |-> vals, eigenvectors |-> Null] : vals \in Spectra(A)}

-----------------------------------------------------------------------------
(* The evaluator as a state machine: one instance and the calls made on it *)

\* a bound on the matrix objects one instance creates under one mode and key
MaxCreated == 2

\* the initial vectors and activation state, the path memos not yet evaluated
InitialVector == <<Num(2), Zero, Frac(1, 2)>>
INITIAL_VECTORS == <<[id |-> 1, value |-> InitialVector, visible |-> TRUE]>>
InitialActivation ==
    [name |-> "identity", customFnStr |-> "x", currentFn |-> "identity", error |-> Null]
NoCounts == [wallId \in {} |-> 0]
SceneIdle ==
    /\ currentT = Zero
    /\ walls = <<>>
    /\ sceneData = <<>>
    /\ wallContactCounts = NoCounts
    /\ effectiveEigenvalues = Null
    /\ matrixAt = Null
    /\ matrixAtEigenvalues = Null
    /\ rawTransformedV = Null
NormIdle ==
    /\ matrixScalar = One
    /\ matrixExponent = One
    /\ normalizeMatrix = FALSE
    /\ normalizationWarning = Null
    /\ normalizationRequest = Null
AnimIdle ==
    /\ isPlaying = FALSE
    /\ repeatAnimation = FALSE
    /\ animationFrameRef = Null
    /\ animationStartRef = Null
    /\ animationDirectionRef = 1
    /\ pendingFrames = {}
    /\ frameTime = Zero
    /\ lastUser = [action |-> "other", value |-> Null, frames |-> 0]
UiIdle == SceneIdle /\ NormIdle /\ contactCall = Null /\ AnimIdle

PipelineIdle ==
    /\ vectors = INITIAL_VECTORS
    /\ activation = InitialActivation
    /\ linearEigenInterpolation = FALSE
    /\ matrixSamples = Null
    /\ vectorTransformationsResult = Null

NoneCreated == [x \in {} |-> 0]
CanCreate == \A x \in DOMAIN allocated : allocated[x] < MaxCreated

TimeJitter == Frac(1, 4000000)

\* finite times, one of them 2.5e-7 away from a 6-decimal value, and the
\* three non-finite numbers
FiniteEvalTimes == {Frac(1, 2), One, RAdd(One, TimeJitter)}
EvalTimes == FiniteEvalTimes \cup NonFinite

EvalVectors == {<<Num(2), Zero, Frac(1, 2)>>}

InitEval ==
    /\ matrixA \in EvalMatrices
    /\ \E eigs \in EigsResults(matrixA) :
           evaluator = createMatrixEvaluator(matrixA, eigs)
    /\ cache = NoCache
    /\ allocated = NoneCreated
    /\ firstTime = {}
    /\ firstMatrix = {}
    /\ last = Null
    /\ animationConfig = [startT |-> Zero, endT |-> Num(2)]
    /\ tPrecision = Frac(1, 100)
    /\ samplingConfig = Null
    /\ PipelineIdle
    /\ UiIdle

Seen(ghost, k, tKey) == \E f \in ghost : f.k = k /\ f.tKey = tKey

\* the ghost bookkeeping of a call: the first time asked for under each key
NoteFirstTime(t, linear) ==
    IF IsFinite(t) /\ ~Seen(firstTime, optionKey(linear), timeKey(t))
    THEN firstTime \cup {[k |-> optionKey(linear), tKey |-> timeKey(t), t |-> t]}
    ELSE firstTime

GetMatrixAt(t, linear) ==
    /\ evaluator # Null
    /\ CanCreate
    /\ \E got \in {getOrCreateMatrix(evaluator[1], cache, allocated, t, linear)} :
           /\ cache' = got.cache
           /\ allocated' = got.allocated
           /\ last' = <<[op |-> "getMatrixAt", t |-> t, linear |-> linear,
                         v |-> Null, ret |-> got.ret, vec |-> Null,
                         computed |-> got.computed]>>
           /\ firstMatrix' =
                 IF IsFinite(t) /\ ~Seen(firstMatrix, optionKey(linear), timeKey(t))
                 THEN firstMatrix \cup {[k |-> optionKey(linear), tKey |-> timeKey(t),
                                         ret |-> got.ret]}
                 ELSE firstMatrix
    /\ firstTime' = NoteFirstTime(t, linear)
    /\ UNCHANGED <<matrixA, evaluator, planVars, pipeVars, uiVars>>

ApplyToVector(t, v, linear) ==
    /\ evaluator # Null
    /\ CanCreate
    /\ \E got \in {applyToVector(evaluator[1], cache, allocated, t, v, linear)} :
           /\ cache' = got.cache
           /\ allocated' = got.allocated
           /\ last' = <<[op |-> "applyToVector", t |-> t, linear |-> linear,
                         v |-> <<v>>, ret |-> Null, vec |-> got.ret,
                         computed |-> got.computed]>>
    /\ firstTime' = NoteFirstTime(t, linear)
    /\ UNCHANGED <<matrixA, evaluator, firstMatrix, planVars, pipeVars, uiVars>>

NextEval ==
    \/ \E t \in EvalTimes, linear \in BOOLEAN : GetMatrixAt(t, linear)
    \/ \E t \in EvalTimes, v \in EvalVectors, linear \in BOOLEAN : ApplyToVector(t, v, linear)

SpecEval == InitEval /\ [][NextEval]_vars


-----------------------------------------------------------------------------
(* Properties of the evaluator                                             *)

IsCall(op) == last # Null /\ last[1].op = op
LastKey == timeKey(last[1].t)
LastMode == optionKey(last[1].linear)

\* the cached matrices as (mode, key, object) triples
Entries(c) ==
    UNION {{<<k, tKey, c[k][tKey]>> : tKey \in DOMAIN c[k]} : k \in DOMAIN c}

\* C1: a getMatrixAt call with a finite time returns the very object that the
\* first getMatrixAt call with the same mode and the same 6-decimal key
\* returned, and only one matrix was ever created under that mode and key,
\* whatever calls were made in between.
C1_SameKeySameObject ==
    (IsCall("getMatrixAt") /\ IsFinite(last[1].t)) =>
        /\ last[1].ret # Null
        /\ \E f \in firstMatrix :
              f.k = LastMode /\ f.tKey = LastKey /\ f.ret = last[1].ret
        /\ Created(allocated, LastMode, LastKey) = 1

\* a cache hit for a time that differs from the first one asked under its key,
\* with a matrix of another key already cached
C1_Witness ==
    /\ IsCall("getMatrixAt") /\ IsFinite(last[1].t) /\ ~last[1].computed
    /\ \E f \in firstTime : f.k = LastMode /\ f.tKey = LastKey /\ f.t # last[1].t
    /\ \E f \in firstMatrix : f.tKey # LastKey

\* the entries of a returned matrix, or Null
MatrixValue(ret) == IF ret = Null THEN Null ELSE <<ret[1].value>>

\* what getMatrixAt and applyToVector return on a fresh evaluator of the same
\* matrix
FreshMatrix(t, linear) ==
    MatrixValue(getOrCreateMatrix(evaluator[1], NoCache, NoneCreated, t, linear).ret)

FreshVector(t, v, linear) ==
    applyToVector(evaluator[1], NoCache, NoneCreated, t, v, linear).ret

\* C2: the result of a call is determined by its arguments alone: it is the
\* value the same call returns on a fresh evaluator, whatever calls came before.
C2_ReferentiallyTransparent ==
    /\ IsCall("getMatrixAt") =>
          MatrixValue(last[1].ret) = FreshMatrix(last[1].t, last[1].linear)
    /\ IsCall("applyToVector") =>
          last[1].vec = FreshVector(last[1].t, last[1].v[1], last[1].linear)

\* what a later call with key tKey under mode k finds in the cache
Lookup(c, k, tKey) ==
    IF k \in DOMAIN c /\ tKey \in DOMAIN c[k] THEN <<c[k][tKey]>> ELSE Null

\* C3: a call with a non-finite time returns null (getMatrixAt and
\* applyToVector alike), adds no matrix to the cache under any mode and
\* creates none, so that every later finite call finds what it would have
\* found without it.
C3_NonFiniteIsNoOp ==
    [][(last' # last /\ ~IsFinite(last'[1].t)) =>
          /\ last'[1].ret = Null /\ last'[1].vec = Null
          /\ Entries(cache') = Entries(cache)
          /\ allocated' = allocated
          /\ \A t \in FiniteEvalTimes, linear \in BOOLEAN :
                Lookup(cache', optionKey(linear), timeKey(t))
                    = Lookup(cache, optionKey(linear), timeKey(t))
      ]_vars

\* a non-finite applyToVector call made on an evaluator that has cached matrices
C3_Witness ==
    /\ IsCall("applyToVector") /\ ~IsFinite(last[1].t) /\ last[1].vec = Null
    /\ Entries(cache) # {}

\* C4: the first getMatrixAt(1) in power mode returns the base matrix.
C4_PowerOneIsA ==
    (IsCall("getMatrixAt") /\ last[1].t = One /\ ~last[1].linear /\ last[1].computed) =>
        last[1].ret # Null /\ last[1].ret[1].value = matrixA

\* such a call for a base matrix that is not diagonal
C4_Witness ==
    /\ IsCall("getMatrixAt") /\ last[1].t = One /\ ~last[1].linear /\ last[1].computed
    /\ matrixA = CustomMatrix
    /\ last[1].ret[1].value = CustomMatrix

\* the entrywise blend (1 - t) I + t A
MatrixBlend(A, t) == MatAdd(MatScale(Identity3, RSub(One, t)), MatScale(A, t))

\* column i of P, the i-th eigenvector
Column(P, i) == <<P[1][i], P[2][i], P[3][i]>>

ScaleVector(s, v) == <<RMul(s, v[1]), RMul(s, v[2]), RMul(s, v[3])>>

IsLinearComputation ==
    IsCall("getMatrixAt") /\ last[1].linear /\ IsFinite(last[1].t) /\ last[1].computed

\* C5 as stated: a linear-mode matrix is not the entrywise blend
\* (1 - t) I + t A of the base matrix.
C5_NotTheMatrixBlend ==
    IsLinearComputation =>
        last[1].ret[1].value # MatrixBlend(matrixA, last[1].t)

\* C5 as amended: a linear-mode matrix has the eigenvectors of A with each
\* eigenvalue lambda replaced by (1 - t) + t lambda, and it equals the
\* entrywise blend (1 - t) I + t A.
C5_EigenBlendIsMatrixBlend ==
    IsLinearComputation =>
        /\ \A i \in Idx :
              multiplyMatrixVector(last[1].ret[1].value, Column(evaluator[1].P, i))
                  = ScaleVector(RAdd(RSub(One, last[1].t),
                                     RMul(last[1].t, evaluator[1].eigenValues[i])),
                                Column(evaluator[1].P, i))
        /\ last[1].ret[1].value = MatrixBlend(matrixA, last[1].t)

\* a linear-mode matrix strictly between the identity and a non-diagonal A
C5_Witness ==
    /\ IsLinearComputation /\ last[1].t = Frac(1, 2) /\ matrixA = CustomMatrix
    /\ last[1].ret[1].value # Identity3 /\ last[1].ret[1].value # matrixA


-----------------------------------------------------------------------------
(* The Sampling Planner: the samplingConfig memo of src/unnamed/part_000   *)

PATH_RESOLUTION == 100

\* variant: the step count rounded down
StepsFor_Floor(range, effectiveStep) ==
    IF Floor(RDiv(range, effectiveStep)) < 1 THEN 1 ELSE Floor(RDiv(range, effectiveStep))

\* Math.max(1, Math.ceil(range / effectiveStep)) for a finite positive range
\* and step
StepsFor(range, effectiveStep) ==
    IF Ceil(RDiv(range, effectiveStep)) < 1 THEN 1 ELSE Ceil(RDiv(range, effectiveStep))

\* safePrecision and effectiveStep
EffectiveStep(precision) ==
    RMin(IF IsFinite(precision) /\ RLess(Zero, precision) THEN precision
         ELSE Frac(1, 100),
         Frac(1, PATH_RESOLUTION))

\* variant: the loop stops before the last sample (i < totalSteps)
SampleTimes_OpenEnd(startT, range, totalSteps) ==
    [i \in 1..totalSteps |->
        RAdd(startT, RMul(Frac(i - 1, totalSteps), range))]

\* the loop filling times[0..totalSteps]; index i + 1 holds times[i]
SampleTimes(startT, range, totalSteps) ==
    [i \in 1..(totalSteps + 1) |->
        RAdd(startT, RMul(Frac(i - 1, totalSteps), range))]

PlanFor(startT, range, totalSteps) ==
    [times |-> SampleTimes(startT, range, totalSteps),
     range |-> range, totalSteps |-> totalSteps]

\* variant: only a negative range is refused (range < 0)
SamplingConfig_StrictRange(config, precision) ==
    IF RLess(RSub(config.endT, config.startT), Zero)
    THEN [times |-> <<>>, range |-> RSub(config.endT, config.startT), totalSteps |-> 0]
    ELSE Once3(PlanFor, config.startT, RSub(config.endT, config.startT),
               StepsFor(RSub(config.endT, config.startT), EffectiveStep(precision)))

\* the samplingConfig memo for finite startT and endT
SamplingConfig(config, precision) ==
    IF RLeq(RSub(config.endT, config.startT), Zero)
    THEN [times |-> <<>>, range |-> RSub(config.endT, config.startT), totalSteps |-> 0]
    ELSE Once3(PlanFor, config.startT, RSub(config.endT, config.startT),
               StepsFor(RSub(config.endT, config.startT), EffectiveStep(precision)))

\* the planner's inputs: time ranges of either sign, and precisions that are
\* coarser and finer than 1 / PATH_RESOLUTION, zero, negative or non-finite
PlanTimes == {Num(-1), Zero, Frac(1, 3), One, Num(2)}
PlanPrecisions ==
    {Frac(1, 100), Frac(1, 250), Frac(3, 100), One, Zero, Frac(-1, 100)} \cup NonFinite

InitPlan ==
    /\ animationConfig \in [startT : PlanTimes, endT : PlanTimes]
    /\ tPrecision \in PlanPrecisions
    /\ samplingConfig = Null
    /\ matrixA = ShearMatrix
    /\ evaluator = Null
    /\ cache = NoCache
    /\ allocated = NoneCreated
    /\ firstTime = {}
    /\ firstMatrix = {}
    /\ last = Null
    /\ PipelineIdle
    /\ UiIdle

\* the render that evaluates the memo for the current inputs
ComputeSamplingConfig ==
    /\ samplingConfig = Null
    /\ samplingConfig' = <<SamplingConfig(animationConfig, tPrecision)>>
    /\ UNCHANGED <<animationConfig, tPrecision, evalVars, pipeVars, uiVars>>

NextPlan == ComputeSamplingConfig

SpecPlan == InitPlan /\ [][NextPlan]_vars

-----------------------------------------------------------------------------
(* The path-building pipeline of src/unnamed/part_000                      *)

\* matrixPreparation with matrixScalar = 1, matrixExponent = 1 and
\* normalizeMatrix off, the values these states have after construction
MatrixPreparation(A) == [matrix |-> <<A>>, error |-> Null]

\* the matrixEvaluator memo
MatrixEvaluator(preparation, eigs) ==
    IF preparation.matrix = Null THEN Null
    ELSE createMatrixEvaluator(preparation.matrix[1], eigs)

\* activation functions are named: "identity", "double" for the expression
\* 2*x, and "nan" for the fallback (x) => NaN
Activate(fn, x) ==
    IF fn = "identity" THEN x
    ELSE IF fn = "double" THEN RMul(Num(2), x)
    ELSE NaN

activationFunctionMap == [identity |-> "identity"]

parseCustomActivation(customFnStr) ==
    IF customFnStr = "x" THEN [fn |-> <<"identity">>, error |-> Null]
    ELSE IF customFnStr = "2*x" THEN [fn |-> <<"double">>, error |-> Null]
    ELSE [fn |-> Null, error |-> <<"Invalid expression">>]

\* what the effect on [activation.name, activation.customFnStr] sets
ParsedActivation(a) ==
    IF a.name = "custom"
    THEN [a EXCEPT
            !.currentFn = IF parseCustomActivation(a.customFnStr).fn # Null
                          THEN parseCustomActivation(a.customFnStr).fn[1]
                          ELSE "nan",
            !.error = parseCustomActivation(a.customFnStr).error]
    ELSE [a EXCEPT
            !.currentFn = IF a.name \in DOMAIN activationFunctionMap
                          THEN activationFunctionMap[a.name]
                          ELSE activationFunctionMap.identity,
            !.error = Null]

\* the matrixSamples memo: times.map(getMatrixAt) on the evaluator, with the
\* cache and the creation counts it leaves
SampleStep(ev, acc, time, linear) ==
    \* getMatrixAt(time): the sample appended, its cache effects kept
    CHOOSE r \in
        {[samples |-> Append(acc.samples, got.ret),
          cache |-> got.cache, allocated |-> got.allocated] :
            got \in {getOrCreateMatrix(ev, acc.cache, acc.allocated, time, linear)}} : TRUE

RECURSIVE MapTimes(_, _, _, _, _)
MapTimes(ev, acc, times, i, linear) ==
    IF i > Len(times) THEN acc
    ELSE CHOOSE r \in
            {MapTimes(ev, next, times, i + 1, linear) :
                next \in {SampleStep(ev, acc, times[i], linear)}} : TRUE

MatrixSamples(ev, c, al, config, linear) ==
    IF ev = Null THEN [samples |-> Null, cache |-> c, allocated |-> al]
    ELSE IF Len(config.times) = 0
    THEN [samples |-> <<<<>>>>, cache |-> c, allocated |-> al]
    ELSE CHOOSE r \in
            {[samples |-> <<done.samples>>, cache |-> done.cache,
              allocated |-> done.allocated] :
                done \in {MapTimes(ev[1], [samples |-> <<>>, cache |-> c, allocated |-> al],
                                   config.times, 1, linear)}} : TRUE

\* one activated point of a path: rawPoint.map(activationFn)
ActivatePoint(fn, rawPoint) ==
    <<Activate(fn, rawPoint[1]), Activate(fn, rawPoint[2]), Activate(fn, rawPoint[3])>>
ActivatedPoint(sample, value, fn) ==
    Once2(ActivatePoint, fn, multiplyMatrixVector(sample, value))

FullPath(samples, value, fn) ==
    SubSeq([i \in 1..Len(samples) |-> ActivatedPoint(samples[i][1].value, value, fn)],
           1, Len(samples))

\* variant: final cloned from the first point of the path
Trajectory_FinalIsInitial(fullPath) ==
    [initial |-> fullPath[1], final |-> fullPath[1], fullPath |-> fullPath]

\* { initial, final, fullPath } of a non-empty path
Trajectory(fullPath) ==
    [initial |-> fullPath[1], final |-> fullPath[Len(fullPath)], fullPath |-> fullPath]

VectorIds(vecs) == {vecs[i].id : i \in DOMAIN vecs}

\* transformations[vector.id], assigned in the order of the vectors
TransformationsMap(vecs, samples, fn) ==
    [id \in VectorIds(vecs) |->
        Once1(Trajectory,
              FullPath(samples,
                       vecs[CHOOSE i \in DOMAIN vecs :
                               /\ vecs[i].id = id
                               /\ \A j \in DOMAIN vecs : vecs[j].id = id => j <= i].value,
                       fn))]

Failure(message) == [transformations |-> Null, error |-> <<message>>]

\* variant: the time range examined before the evaluator
VectorTransformationsResult_RangeFirst(preparation, act, ev, config, samples, vecs) ==
    IF preparation.error # Null THEN Failure(preparation.error[1])
    ELSE IF act.error # Null /\ act.error[1] # ""
    THEN Failure(<<"Activation Function Error: ", act.error[1]>>)
    ELSE IF RLeq(config.range, Zero)
    THEN Failure("Animation End Time must be greater than Start Time.")
    ELSE IF ev = Null THEN Failure("Matrix unavailable.")
    ELSE IF samples = Null THEN Failure("Matrix generation failed.")
    ELSE IF \E i \in DOMAIN samples[1] : samples[1][i] = Null
    THEN Failure("Matrix generation failed at specific time samples.")
    ELSE IF Len(vecs) > 0 /\ Len(samples[1]) = 0
    THEN Failure("Calculation Error: The matrix might be singular or non-diagonalizable.")
    ELSE [transformations |-> <<TransformationsMap(vecs, samples[1], act.currentFn)>>,
          error |-> Null]

\* variant: the samples examined before the time range
VectorTransformationsResult_SamplesFirst(preparation, act, ev, config, samples, vecs) ==
    IF preparation.error # Null THEN Failure(preparation.error[1])
    ELSE IF act.error # Null /\ act.error[1] # ""
    THEN Failure(<<"Activation Function Error: ", act.error[1]>>)
    ELSE IF ev = Null THEN Failure("Matrix unavailable.")
    ELSE IF samples = Null THEN Failure("Matrix generation failed.")
    ELSE IF \E i \in DOMAIN samples[1] : samples[1][i] = Null
    THEN Failure("Matrix generation failed at specific time samples.")
    ELSE IF Len(vecs) > 0 /\ Len(samples[1]) = 0
    THEN Failure("Calculation Error: The matrix might be singular or non-diagonalizable.")
    ELSE IF RLeq(config.range, Zero)
    THEN Failure("Animation End Time must be greater than Start Time.")
    ELSE [transformations |-> <<TransformationsMap(vecs, samples[1], act.currentFn)>>,
          error |-> Null]

\* the vectorTransformationsResult memo
VectorTransformationsResult(preparation, act, ev, config, samples, vecs) ==
    IF preparation.error # Null THEN Failure(preparation.error[1])
    ELSE IF act.error # Null /\ act.error[1] # ""
    THEN Failure(<<"Activation Function Error: ", act.error[1]>>)
    ELSE IF ev = Null THEN Failure("Matrix unavailable.")
    ELSE IF RLeq(config.range, Zero)
    THEN Failure("Animation End Time must be greater than Start Time.")
    ELSE IF samples = Null THEN Failure("Matrix generation failed.")
    ELSE IF \E i \in DOMAIN samples[1] : samples[1][i] = Null
    THEN Failure("Matrix generation failed at specific time samples.")
    ELSE IF Len(vecs) > 0 /\ Len(samples[1]) = 0
    THEN Failure("Calculation Error: The matrix might be singular or non-diagonalizable.")
    ELSE [transformations |-> <<TransformationsMap(vecs, samples[1], act.currentFn)>>,
          error |-> Null]

-----------------------------------------------------------------------------
(* Wall contacts and the scene: the sceneData memo of src/unnamed/part_000 *)

CONTACT_TOLERANCE == Frac(7, 100)

\* axisAccess[axis](vec) and setAxis(vec, axis, value)
AxisIndex(axis) == IF axis = "x" THEN 1 ELSE IF axis = "y" THEN 2 ELSE 3
axisAccess(axis, vec) == vec[AxisIndex(axis)]
setAxis(vec, axis, value) == [vec EXCEPT ![AxisIndex(axis)] = value]

\* variant: the secondary offset consulted first
resolveNormalDirection_SecondaryFirst(primary, secondary) ==
    IF secondary # Null /\ AbsAbove(secondary[1], 1000000)
    THEN (IF RLeq(Zero, secondary[1]) THEN 1 ELSE -1)
    ELSE IF AbsAbove(primary, 1000000)
    THEN (IF RLeq(Zero, primary) THEN 1 ELSE -1)
    ELSE 1

\* resolveNormalDirection(primary, secondary?): secondary is Null when it is
\* undefined
resolveNormalDirection(primary, secondary) ==
    IF AbsAbove(primary, 1000000)
    THEN (IF RLeq(Zero, primary) THEN 1 ELSE -1)
    ELSE IF secondary # Null /\ AbsAbove(secondary[1], 1000000)
    THEN (IF RLeq(Zero, secondary[1]) THEN 1 ELSE -1)
    ELSE 1

Contact(wall, point, normalDirection) ==
    <<[wallId |-> wall.id, axis |-> wall.axis, position |-> wall.position,
       point |-> setAxis(point, wall.axis, wall.position),
       normalDirection |-> normalDirection]>>

\* THREE.MathUtils.clamp and Vector3.lerp
Clamp(value, lo, hi) == RMax(lo, RMin(hi, value))
LerpAxis(from, to, alpha) == RAdd(from, RMul(RSub(to, from), alpha))
Lerp(from, to, alpha) ==
    <<LerpAxis(from[1], to[1], alpha), LerpAxis(from[2], to[2], alpha),
      LerpAxis(from[3], to[3], alpha)>>

\* the sign-crossing rule of computeContact
CrossingContact(wall, current, previous, diffCurrent, diffPrev) ==
    IF RLess(RMul(diffPrev, diffCurrent), Zero)
         /\ AbsAbove(RSub(axisAccess(wall.axis, current), axisAccess(wall.axis, previous)),
                     100000000)
    THEN Contact(wall,
                 Lerp(previous, current,
                      Clamp(RDiv(RSub(wall.position, axisAccess(wall.axis, previous)),
                                 RSub(axisAccess(wall.axis, current),
                                      axisAccess(wall.axis, previous))),
                            Zero, One)),
                 resolveNormalDirection(diffCurrent, <<diffPrev>>))
    ELSE Null

\* the rules of computeContact that need a previous point
PreviousContact(wall, current, previous, diffCurrent, diffPrev) ==
    IF RLeq(RAbs(diffPrev), CONTACT_TOLERANCE)
    THEN Contact(wall, previous, resolveNormalDirection(diffPrev, <<diffCurrent>>))
    ELSE CrossingContact(wall, current, previous, diffCurrent, diffPrev)

\* variant: the previous point examined before the current one
computeContact_PreviousFirst(wall, current, previous) ==
    LET diffCurrent == RSub(axisAccess(wall.axis, current), wall.position)
        diffPrev == RSub(axisAccess(wall.axis, previous[1]), wall.position)
    IN  IF previous # Null /\ RLeq(RAbs(diffPrev), CONTACT_TOLERANCE)
        THEN Contact(wall, previous[1], resolveNormalDirection(diffPrev, <<diffCurrent>>))
        ELSE IF RLeq(RAbs(diffCurrent), CONTACT_TOLERANCE)
        THEN Contact(wall, current,
                     resolveNormalDirection(diffCurrent,
                                            IF previous # Null THEN <<diffPrev>> ELSE Null))
        ELSE IF previous # Null
        THEN CrossingContact(wall, current, previous[1], diffCurrent, diffPrev)
        ELSE Null

\* computeContact(wall, current, previous): previous is Null or <<point>>;
\* the result is Null or <<contact>>
computeContact(wall, current, previous) ==
    LET diffCurrent == RSub(axisAccess(wall.axis, current), wall.position)
        diffPrev == RSub(axisAccess(wall.axis, previous[1]), wall.position)
    IN  IF RLeq(RAbs(diffCurrent), CONTACT_TOLERANCE)
        THEN Contact(wall, current,
                     resolveNormalDirection(diffCurrent,
                                            IF previous # Null THEN <<diffPrev>> ELSE Null))
        ELSE IF previous # Null
        THEN PreviousContact(wall, current, previous[1], diffCurrent, diffPrev)
        ELSE Null

\* Array.prototype.slice(0, end) for an integral or non-finite end: NaN
\* and -Infinity read as 0, a negative end counts from the end of the array
SliceEnd(len, end) ==
    IF end = NaN \/ end = NegInfinity THEN 0
    ELSE IF end = PosInfinity THEN len
    ELSE IF Floor(end) < 0
    THEN (IF len + Floor(end) < 0 THEN 0 ELSE len + Floor(end))
    ELSE IF Floor(end) > len THEN len ELSE Floor(end)
Slice(array, end) == SubSeq(array, 1, SliceEnd(Len(array), end))

\* sliceEnd and currentPath of one visible vector
CurrentPath(fullPath, progress) ==
    Slice(fullPath, RAdd(FloorNum(RMul(progress, Num(Len(fullPath) - 1))), One))

\* walls.forEach(wall => ...): the contacts found, in wall order
RECURSIVE Contacts(_, _, _, _)
Contacts(wallList, i, current, previous) ==
    IF i > Len(wallList) THEN <<>>
    ELSE computeContact(wallList[i], current, <<previous>>)
            \o Contacts(wallList, i + 1, current, previous)

EntryOn(vector, transform, currentPath, wallList) ==
    [id |-> vector.id,
     initialVector |-> transform.initial,
     finalVector |-> transform.final,
     interpolatedVector |->
        IF Len(currentPath) > 0 THEN currentPath[Len(currentPath)] ELSE transform.initial,
     path |-> currentPath,
     contacts |->
        Contacts(wallList, 1,
                 IF Len(currentPath) > 0 THEN currentPath[Len(currentPath)]
                 ELSE transform.initial,
                 IF Len(currentPath) > 1 THEN currentPath[Len(currentPath) - 1]
                 ELSE transform.initial)]

EntryOf(vector, transform, progress, wallList) ==
    CHOOSE e \in
        {EntryOn(vector, transform, currentPath, wallList) :
            currentPath \in {CurrentPath(transform.fullPath, progress)}} : TRUE
\* transform = vectorTransformations[vector.id]
SceneEntry(vector, transformations, progress, wallList) ==
    CHOOSE e \in
        {EntryOf(vector, transform, progress, wallList) :
            transform \in {transformations[vector.id]}} : TRUE

\* variant: hidden vectors are given an entry too
RECURSIVE VisibleEntries_AllVectors(_, _, _, _, _)
VisibleEntries_AllVectors(vecs, i, transformations, progress, wallList) ==
    IF i > Len(vecs) THEN <<>>
    ELSE <<SceneEntry(vecs[i], transformations, progress, wallList)>>
            \o VisibleEntries_AllVectors(vecs, i + 1, transformations, progress, wallList)

\* vectors.filter(v => v.visible).map(vector => ...)
RECURSIVE VisibleEntries(_, _, _, _, _)
VisibleEntries(vecs, i, transformations, progress, wallList) ==
    IF i > Len(vecs) THEN <<>>
    ELSE (IF vecs[i].visible
          THEN <<SceneEntry(vecs[i], transformations, progress, wallList)>>
          ELSE <<>>)
            \o VisibleEntries(vecs, i + 1, transformations, progress, wallList)

\* the sceneData memo
SceneData(transformations, animation, time, vecs, wallList) ==
    IF transformations = Null THEN <<>>
    ELSE IF RLeq(RSub(animation.endT, animation.startT), Zero) THEN <<>>
    ELSE VisibleEntries(vecs, 1, transformations[1],
                        RDiv(RSub(time, animation.startT),
                             RSub(animation.endT, animation.startT)),
                        wallList)

\* the wallContactCounts memo: a count for every wall id met in a contact
ContactsWith(entry, wallId) ==
    Cardinality({j \in DOMAIN entry.contacts : entry.contacts[j].wallId = wallId})
RECURSIVE CountContacts(_, _, _)
CountContacts(scene, i, wallId) ==
    IF i > Len(scene) THEN 0
    ELSE ContactsWith(scene[i], wallId) + CountContacts(scene, i + 1, wallId)
WallContactCounts(scene) ==
    [wallId \in UNION {{scene[i].contacts[j].wallId : j \in DOMAIN scene[i].contacts} :
                          i \in DOMAIN scene} |->
        CountContacts(scene, 1, wallId)]

\* mapEigenvalues on an array of numbers
mapEigenvalues(raw) == [i \in DOMAIN raw |-> [re |-> raw[i], im |-> Zero]]

\* the effectiveEigenvalues and matrixAtEigenvalues memos
EffectiveEigenvalues(ev) ==
    IF ev = Null THEN Null ELSE <<mapEigenvalues(ev[1].eigenValues)>>
MatrixAtEigenvalues(ev, time, linear) ==
    IF ev = Null THEN Null
    ELSE <<mapEigenvalues([i \in DOMAIN ev[1].eigenValues |->
                              interpolateEigenvalue(ev[1].eigenValues[i], time, linear)])>>

\* vectors.find(v => v.visible): Null when there is none
FirstVisibleVector(vecs) ==
    IF \E i \in DOMAIN vecs : vecs[i].visible
    THEN <<vecs[CHOOSE i \in DOMAIN vecs :
                   vecs[i].visible /\ \A j \in DOMAIN vecs : vecs[j].visible => i <= j]>>
    ELSE Null

\* the matrixAt and rawTransformedV memos, as evaluator calls with the
\* cache they leave
MatrixAt(ev, c, al, time, linear) ==
    IF ev = Null THEN [ret |-> Null, cache |-> c, allocated |-> al, computed |-> FALSE]
    ELSE getOrCreateMatrix(ev[1], c, al, time, linear)
RawTransformedV(ev, c, al, time, vecs, linear) ==
    IF FirstVisibleVector(vecs) = Null \/ ev = Null
    THEN [ret |-> Null, cache |-> c, allocated |-> al, computed |-> FALSE]
    ELSE applyToVector(ev[1], c, al, time, FirstVisibleVector(vecs)[1].value, linear)

\* the memos below vectorTransformationsResult, evaluated in source order
\* after a render r of the memos above them
DisplayOn(scene, ev, time, linear, at, raw) ==
    [sceneData |-> scene,
     wallContactCounts |-> WallContactCounts(scene),
     effectiveEigenvalues |-> EffectiveEigenvalues(ev),
     matrixAt |-> at.ret,
     matrixAtEigenvalues |-> MatrixAtEigenvalues(ev, time, linear),
     rawTransformedV |-> raw.ret,
     cache |-> raw.cache,
     allocated |-> raw.allocated]
DisplayAfter(r, ev, time, linear, vecs, wallList, animation, at) ==
    CHOOSE d \in
        {DisplayOn(scene, ev, time, linear, at, raw) :
            scene \in {SceneData(r.result.transformations, animation, time, vecs, wallList)},
            raw \in {RawTransformedV(ev, at.cache, at.allocated, time, vecs, linear)}} : TRUE
Display(r, ev, time, linear, vecs, wallList, animation) ==
    CHOOSE d \in
        {DisplayAfter(r, ev, time, linear, vecs, wallList, animation, at) :
            at \in {MatrixAt(ev, r.cache, r.allocated, time, linear)}} : TRUE

\* one render: the memos evaluated in order on the current state
RenderFrom(A, ev, config, sampled, vecs, act) ==
    [samplingConfig |-> config,
     matrixSamples |-> sampled.samples,
     cache |-> sampled.cache,
     allocated |-> sampled.allocated,
     result |-> VectorTransformationsResult(MatrixPreparation(A), act, ev, config,
                                            sampled.samples, vecs)]
RenderWith(A, ev, c, al, config, linear, vecs, act) ==
    CHOOSE r \in
        {RenderFrom(A, ev, config, sampled, vecs, act) :
            sampled \in {MatrixSamples(ev, c, al, config, linear)}} : TRUE
Render(A, ev, c, al, animation, precision, linear, vecs, act) ==
    CHOOSE r \in
        {RenderWith(A, ev, c, al, config, linear, vecs, act) :
            config \in {SamplingConfig(animation, precision)}} : TRUE

-----------------------------------------------------------------------------
(* The animation loop: stopAnimation, the frame callback and its effect *)

\* ghost: a user action, no frame having run since; the value of a seek
\* or reset is <<the t it set, the number of frames then pending>>, the
\* value of a play is <<the t before it>>
UserAction(action, value) == [action |-> action, value |-> value, frames |-> 0]

\* the refs and the browser's frame queue, which the handlers, the frame
\* callback and the effect update one after the other
AnimationNow ==
    [isPlaying |-> isPlaying, ref |-> animationFrameRef, start |-> animationStartRef,
     direction |-> animationDirectionRef, pending |-> pendingFrames]
Animated(a) ==
    /\ isPlaying' = a.isPlaying
    /\ animationFrameRef' = a.ref
    /\ animationStartRef' = a.start
    /\ animationDirectionRef' = a.direction
    /\ pendingFrames' = a.pending

\* cancelAnimationFrame(id) and requestAnimationFrame(animate): an id is
\* new, it is neither pending nor held by animationFrameRef
MaxFrames == 3
cancelAnimationFrame(pending, id) == {f \in pending : f.id # id}
NewFrameId(a) ==
    CHOOSE id \in 1..MaxFrames :
        /\ id \notin {f.id : f \in a.pending} \cup {a.ref[i] : i \in DOMAIN a.ref}
        /\ \A other \in 1..(id - 1) :
              other \in {f.id : f \in a.pending} \cup {a.ref[i] : i \in DOMAIN a.ref}
requestAnimationFrame(a, config, repeat) ==
    [a EXCEPT !.ref = <<NewFrameId(a)>>,
              !.pending = a.pending
                            \cup {[id |-> NewFrameId(a), config |-> config, repeat |-> repeat]}]

\* variant: the pending frame left in the queue
stopAnimation_FrameKept(a) ==
    [a EXCEPT !.isPlaying = FALSE, !.ref = Null, !.start = Null, !.direction = 1]

\* variant: the start timestamp and the direction survive a stop
stopAnimation_CycleKept(a) ==
    [a EXCEPT !.isPlaying = FALSE,
              !.pending = IF a.ref # Null THEN cancelAnimationFrame(a.pending, a.ref[1])
                          ELSE a.pending,
              !.ref = Null]

stopAnimation(a) ==
    [a EXCEPT !.isPlaying = FALSE,
              !.pending = IF a.ref # Null THEN cancelAnimationFrame(a.pending, a.ref[1])
                          ELSE a.pending,
              !.ref = Null,
              !.start = Null,
              !.direction = 1]

\* the animation effect after a render: when isPlaying, animationConfig or
\* repeatAnimation changed, the cleanup of the previous run (there is one
\* when it ran with isPlaying) and then the body
EffectCleanup(a) ==
    IF isPlaying /\ a.ref # Null
    THEN [a EXCEPT !.pending = cancelAnimationFrame(a.pending, a.ref[1])]
    ELSE a
EffectBody(a, config, repeat) ==
    IF a.isPlaying THEN requestAnimationFrame(a, config, repeat) ELSE a
AnimationEffect(a, config, repeat, newConfig) ==
    IF newConfig \/ a.isPlaying # isPlaying \/ repeat # repeatAnimation
    THEN EffectBody(EffectCleanup(a), config, repeat)
    ELSE a

\* the inputs of the pipeline: a defective and a diagonalizable matrix,
\* a valid, an empty and a reversed time range, a precision equal to and one
\* coarser than 1 / PATH_RESOLUTION
MaxVectors == 2
VECTOR_COLORS_length == 6
PipeMatrices == {ShearMatrix, CustomMatrix}
PipeConfigs ==
    {[startT |-> Zero, endT |-> Frac(1, 50)],
     [startT |-> Zero, endT |-> Zero],
     [startT |-> Frac(1, 50), endT |-> Zero]}
PipePrecisions == {Frac(1, 100), Frac(3, 100)}
VectorValues == {InitialVector, <<Num(-1), One, Zero>>}
ActivationNames == {"identity", "custom"}
CustomFnStrs == {"2*x", "2*"}

\* the evaluators math.eigs can lead to, for each matrix
EvaluatorsOf(A) ==
    {MatrixEvaluator(MatrixPreparation(A), eigs) : eigs \in EigsResults(A)}
PipeEvaluators ==
    UNION {{[matrix |-> A, evaluator |-> ev] : ev \in EvaluatorsOf(A)} : A \in PipeMatrices}

Displayed(d) ==
    /\ sceneData' = d.sceneData
    /\ wallContactCounts' = d.wallContactCounts
    /\ effectiveEigenvalues' = d.effectiveEigenvalues
    /\ matrixAt' = d.matrixAt
    /\ matrixAtEigenvalues' = d.matrixAtEigenvalues
    /\ rawTransformedV' = d.rawTransformedV
    /\ cache' = d.cache
    /\ allocated' = d.allocated

Rendered(r) ==
    /\ samplingConfig' = <<r.samplingConfig>>
    /\ matrixSamples' = r.matrixSamples
    /\ vectorTransformationsResult' = r.result
    /\ \E d \in {Display(r, evaluator', currentT', linearEigenInterpolation', vectors', walls',
                          animationConfig')} : Displayed(d)

\* the render that follows a state change, on an evaluator whose cache is c
RerenderOn(c, al) ==
    \E r \in {Render(matrixA', evaluator', c, al, animationConfig', tPrecision',
                     linearEigenInterpolation', vectors', activation')} : Rendered(r)
Rerender == RerenderOn(cache, allocated)

\* the state after construction and the first render, the animation range
\* being one of PipeConfigs
InitPipe ==
    /\ \E built \in PipeEvaluators :
           matrixA = built.matrix /\ evaluator = built.evaluator
    /\ vectors = INITIAL_VECTORS
    /\ activation = InitialActivation
    /\ linearEigenInterpolation = FALSE
    /\ animationConfig = [startT |-> Zero, endT |-> Frac(1, 50)]
    /\ tPrecision = Frac(1, 100)
    /\ currentT = Zero
    /\ walls = <<>>
    /\ NormIdle
    /\ contactCall = Null
    /\ AnimIdle
    /\ \E r \in {Render(matrixA, evaluator, NoCache, NoneCreated, animationConfig,
                        tPrecision, linearEigenInterpolation, vectors, activation)} :
           /\ samplingConfig = <<r.samplingConfig>>
           /\ matrixSamples = r.matrixSamples
           /\ vectorTransformationsResult = r.result
           /\ \E d \in {Display(r, evaluator, currentT, linearEigenInterpolation, vectors, walls,
                                 animationConfig)} :
                  /\ sceneData = d.sceneData
                  /\ wallContactCounts = d.wallContactCounts
                  /\ effectiveEigenvalues = d.effectiveEigenvalues
                  /\ matrixAt = d.matrixAt
                  /\ matrixAtEigenvalues = d.matrixAtEigenvalues
                  /\ rawTransformedV = d.rawTransformedV
                  /\ cache = d.cache
                  /\ allocated = d.allocated
    /\ firstTime = {}
    /\ firstMatrix = {}
    /\ last = Null

ghostVars == <<firstTime, firstMatrix, last>>

\* handleMatrixChange / handlePresetSelect: a new matrixA, hence a new
\* matrixPreparation.matrix and a new evaluator with an empty cache
handleMatrixChange(newMatrix) ==
    /\ matrixA' = newMatrix
    /\ \E built \in PipeEvaluators :
           built.matrix = newMatrix /\ evaluator' = built.evaluator
    /\ UNCHANGED <<animationConfig, tPrecision, vectors, activation,
                   linearEigenInterpolation, ghostVars, sceneState, normVars,
                   contactCall, animState>>
    /\ lastUser' = UserAction("other", Null)
    /\ RerenderOn(NoCache, NoneCreated)

\* Date.now() never decreases and the model lets it advance between two
\* additions: a new id is larger than every id in the list
LaterIds(vecs) == {n \in 1..MaxVectors : \A id \in VectorIds(vecs) : id < n}

handleAddVector(now, value) ==
    /\ now \in LaterIds(vectors)
    /\ vectors' = IF Len(vectors) >= VECTOR_COLORS_length THEN vectors
                  ELSE Append(vectors, [id |-> now, value |-> value, visible |-> TRUE])
    /\ UNCHANGED <<matrixA, evaluator, animationConfig, tPrecision, activation,
                   linearEigenInterpolation, ghostVars, sceneState, normVars,
                   contactCall, animState>>
    /\ lastUser' = UserAction("other", Null)
    /\ Rerender

KeepOthers(vecs, id) ==
    LET Other(v) == v.id # id IN SelectSeq(vecs, Other)

handleRemoveVector(id) ==
    /\ vectors' = KeepOthers(vectors, id)
    /\ UNCHANGED <<matrixA, evaluator, animationConfig, tPrecision, activation,
                   linearEigenInterpolation, ghostVars, sceneState, normVars,
                   contactCall, animState>>
    /\ lastUser' = UserAction("other", Null)
    /\ Rerender

handleVectorChange(id, newValue) ==
    /\ vectors' = [i \in DOMAIN vectors |->
                      IF vectors[i].id = id THEN [vectors[i] EXCEPT !.value = newValue]
                      ELSE vectors[i]]
    /\ UNCHANGED <<matrixA, evaluator, animationConfig, tPrecision, activation,
                   linearEigenInterpolation, ghostVars, sceneState, normVars,
                   contactCall, animState>>
    /\ lastUser' = UserAction("other", Null)
    /\ Rerender

\* setActivation from the controls, and the effect on [activation.name,
\* activation.customFnStr] that follows it
setActivation(name, customFnStr) ==
    /\ activation' = ParsedActivation([activation EXCEPT !.name = name,
                                                         !.customFnStr = customFnStr])
    /\ UNCHANGED <<matrixA, evaluator, animationConfig, tPrecision, vectors,
                   linearEigenInterpolation, ghostVars, sceneState, normVars,
                   contactCall, animState>>
    /\ lastUser' = UserAction("other", Null)
    /\ Rerender

handleLinearInterpolationToggle(enabled) ==
    /\ linearEigenInterpolation' = enabled
    /\ UNCHANGED <<matrixA, evaluator, animationConfig, tPrecision, vectors,
                   activation, ghostVars, sceneState, normVars,
                   contactCall, animState>>
    /\ lastUser' = UserAction("other", Null)
    /\ Rerender

setTPrecision(precision) ==
    /\ tPrecision' = precision
    /\ UNCHANGED <<matrixA, evaluator, animationConfig, vectors, activation,
                   linearEigenInterpolation, ghostVars, sceneState, normVars,
                   contactCall, animState>>
    /\ lastUser' = UserAction("other", Null)
    /\ Rerender

setAnimationConfig(config) ==
    /\ animationConfig' = config
    /\ Animated(AnimationEffect(AnimationNow, config, repeatAnimation, TRUE))
    /\ lastUser' = UserAction("other", Null)
    /\ UNCHANGED <<matrixA, evaluator, tPrecision, vectors, activation,
                   linearEigenInterpolation, ghostVars, sceneState, normVars,
                   contactCall, repeatAnimation, frameTime>>
    /\ Rerender

\* the user's inputs; an input that repeats the value the state already has
\* (the same vector value, activation, interpolation mode or precision)
\* re-renders to the same state and is left to stuttering
NextPipe ==
    \/ \E newMatrix \in PipeMatrices : handleMatrixChange(newMatrix)
    \/ \E now \in 1..MaxVectors, value \in VectorValues : handleAddVector(now, value)
    \/ \E id \in VectorIds(vectors) : handleRemoveVector(id)
    \/ \E id \in VectorIds(vectors), newValue \in VectorValues :
           /\ \E i \in DOMAIN vectors : vectors[i].id = id /\ vectors[i].value # newValue
           /\ handleVectorChange(id, newValue)
    \/ \E name \in ActivationNames, customFnStr \in CustomFnStrs :
           /\ <<name, customFnStr>> # <<activation.name, activation.customFnStr>>
           /\ setActivation(name, customFnStr)
    \/ \E enabled \in BOOLEAN \ {linearEigenInterpolation} :
           handleLinearInterpolationToggle(enabled)
    \/ \E precision \in PipePrecisions \ {tPrecision} : setTPrecision(precision)
    \/ \E config \in PipeConfigs : setAnimationConfig(config)

SpecPipe == InitPipe /\ [][NextPipe]_vars

-----------------------------------------------------------------------------
(* Properties of the Sampling Planner                                      *)

Planned == samplingConfig # Null
PlanRange == RSub(animationConfig.endT, animationConfig.startT)
ValidRange == RLess(animationConfig.startT, animationConfig.endT)
PrecisionUsable == IsFinite(tPrecision) /\ RLess(Zero, tPrecision)

\* max(1, ceil(range / min(p, 1/100))) as a number, for any p
StepsWith(p) ==
    RMax(One, CeilNum(RDiv(PlanRange, RMin(p, Frac(1, 100)))))

\* steps + 1 samples, the i-th at startT + (i / steps) * range, the first at
\* startT, the last at endT, strictly increasing
EvenlySpaced(plan) ==
    /\ Len(plan.times) = plan.totalSteps + 1
    /\ \A i \in 0..plan.totalSteps :
          plan.times[i + 1] =
              RAdd(animationConfig.startT,
                   RMul(RDiv(Num(i), Num(plan.totalSteps)), PlanRange))
    /\ plan.times[1] = animationConfig.startT
    /\ plan.times[Len(plan.times)] = animationConfig.endT
    /\ \A i \in 1..(Len(plan.times) - 1) :
          RLess(plan.times[i], plan.times[i + 1])

DefaultPlanInputs ==
    /\ animationConfig = [startT |-> Zero, endT |-> Num(2)]
    /\ tPrecision = Frac(1, 100)

\* C7 as stated: startT = 0, endT = 2 and precision 0.01 give exactly 200
\* samples, the first at 0 and the last at 2.
C7_TwoHundredSamples ==
    (Planned /\ DefaultPlanInputs) =>
        /\ Len(samplingConfig[1].times) = 200
        /\ samplingConfig[1].times[1] = Zero
        /\ samplingConfig[1].times[Len(samplingConfig[1].times)] = Num(2)

\* C7 as amended: startT = 0, endT = 2 and precision 0.01 give 200 steps, that
\* is exactly 201 samples, the first at 0 and the last at 2.
C7_TwoHundredSteps ==
    (Planned /\ DefaultPlanInputs) =>
        /\ samplingConfig[1].totalSteps = 200
        /\ Len(samplingConfig[1].times) = 201
        /\ samplingConfig[1].times[1] = Zero
        /\ samplingConfig[1].times[201] = Num(2)

C7_Witness ==
    Planned /\ DefaultPlanInputs /\ samplingConfig[1].times[101] = One

\* C8: for a valid range the step count never exceeds
\* ceil(100 * (endT - startT)), however fine the precision.
C8_AtMostHundredPerUnit ==
    (Planned /\ ValidRange) =>
        samplingConfig[1].totalSteps <= Ceil(RMul(Num(PATH_RESOLUTION), PlanRange))

\* C9: when endT <= startT the plan is the empty sequence with zero steps,
\* whatever the precision.
C9_EmptyPlanForInvalidRange ==
    (Planned /\ ~ValidRange) =>
        /\ samplingConfig[1].times = <<>>
        /\ samplingConfig[1].totalSteps = 0
        /\ samplingConfig[1].range = PlanRange

C9_Witness ==
    /\ Planned
    /\ animationConfig.endT = animationConfig.startT
    /\ ~PrecisionUsable
    /\ samplingConfig[1].times = <<>>

-----------------------------------------------------------------------------
(* Properties of the path-building pipeline                                *)

Exposed == vectorTransformationsResult.transformations # Null
SampleUnavailable ==
    matrixSamples = Null \/ \E i \in DOMAIN matrixSamples[1] : matrixSamples[1][i] = Null

\* the trajectory has one point per sample time, and initial and final are
\* its first and last points
WholeTrajectory(trajectory) ==
    /\ Len(trajectory.fullPath) = samplingConfig[1].totalSteps + 1
    /\ Len(trajectory.fullPath) = Len(samplingConfig[1].times)
    /\ trajectory.initial = trajectory.fullPath[1]
    /\ trajectory.final = trajectory.fullPath[Len(trajectory.fullPath)]

\* C10: in every state exactly one of (transformations, error) is non-null;
\* when transformations is non-null it holds, for every tracked vector, a
\* trajectory of steps + 1 points whose initial and final are its first and
\* last point; and when a sample matrix is unavailable no trajectory is
\* exposed.
C10_ValueOrError ==
    /\ Exposed <=> vectorTransformationsResult.error = Null
    /\ Exposed =>
          /\ DOMAIN vectorTransformationsResult.transformations[1] = VectorIds(vectors)
          /\ \A i \in DOMAIN vectors :
                WholeTrajectory(
                    vectorTransformationsResult.transformations[1][vectors[i].id])
    /\ SampleUnavailable => ~Exposed

C10_Witness ==
    /\ Exposed
    /\ Len(vectors) = 2
    /\ vectors[1].value # vectors[2].value
    /\ samplingConfig[1].totalSteps = 2
    /\ \A i \in DOMAIN vectors :
          /\ Len(vectorTransformationsResult.transformations[1][vectors[i].id].fullPath) = 3
          /\ vectorTransformationsResult.transformations[1][vectors[i].id].final
                # vectorTransformationsResult.transformations[1][vectors[i].id].initial

-----------------------------------------------------------------------------
(* The scene: time, walls and visibility on a diagonalizable matrix *)

MaxWalls == 2
SceneTimes == {Frac(-1, 50), Zero, Frac(1, 100)}
SceneVectorValues == {<<Zero, Zero, One>>}
SceneVectorIds == {2}
WallIdPool == {1, 2}
WallAxes == {"x", "y"}
\* Partial<Wall>: a field left out is Null
WallUpdates ==
    {[axis |-> <<axis>>, position |-> Null] : axis \in WallAxes}
        \cup {[axis |-> Null, position |-> <<position>>] : position \in {NaN}}

InitScene ==
    /\ matrixA = CustomMatrix
    /\ \E built \in PipeEvaluators :
           built.matrix = matrixA /\ built.evaluator # Null /\ evaluator = built.evaluator
    /\ vectors = INITIAL_VECTORS
    /\ activation = InitialActivation
    /\ linearEigenInterpolation = FALSE
    /\ animationConfig = [startT |-> Zero, endT |-> Frac(1, 50)]
    /\ tPrecision = Frac(1, 100)
    /\ currentT = Zero
    /\ walls = <<>>
    /\ NormIdle
    /\ contactCall = Null
    /\ AnimIdle
    /\ \E r \in {Render(matrixA, evaluator, NoCache, NoneCreated, animationConfig,
                        tPrecision, linearEigenInterpolation, vectors, activation)} :
           /\ samplingConfig = <<r.samplingConfig>>
           /\ matrixSamples = r.matrixSamples
           /\ vectorTransformationsResult = r.result
           /\ \E d \in {Display(r, evaluator, currentT, linearEigenInterpolation, vectors, walls,
                                 animationConfig)} :
                  /\ sceneData = d.sceneData
                  /\ wallContactCounts = d.wallContactCounts
                  /\ effectiveEigenvalues = d.effectiveEigenvalues
                  /\ matrixAt = d.matrixAt
                  /\ matrixAtEigenvalues = d.matrixAtEigenvalues
                  /\ rawTransformedV = d.rawTransformedV
                  /\ cache = d.cache
                  /\ allocated = d.allocated
    /\ firstTime = {}
    /\ firstMatrix = {}
    /\ last = Null

pipeState ==
    <<matrixA, evaluator, animationConfig, tPrecision, vectors, activation,
      linearEigenInterpolation>>

\* handleTChange: stopAnimation(), setT(newT), then the render and effects
handleTChange(newT) ==
    /\ currentT' = newT
    /\ Animated(AnimationEffect(stopAnimation(AnimationNow), animationConfig,
                                repeatAnimation, FALSE))
    /\ lastUser' = UserAction("seek", <<newT, Cardinality(pendingFrames)>>)
    /\ UNCHANGED <<pipeState, walls, ghostVars, normVars, contactCall, repeatAnimation,
                   frameTime>>
    /\ Rerender

handleToggleVectorVisibility(id) ==
    /\ vectors' = [i \in DOMAIN vectors |->
                      IF vectors[i].id = id
                      THEN [vectors[i] EXCEPT !.visible = ~vectors[i].visible]
                      ELSE vectors[i]]
    /\ lastUser' = UserAction("other", Null)
    /\ UNCHANGED <<matrixA, evaluator, animationConfig, tPrecision, activation,
                   linearEigenInterpolation, sceneState, ghostVars, normVars, contactCall,
                   animState>>
    /\ Rerender

\* handleAddWall: the id is Date.now() plus a random offset below 1000, so
\* it need not differ from the id of an earlier wall
handleAddWall(id) ==
    /\ Len(walls) < MaxWalls
    /\ walls' = Append(walls, [id |-> id, axis |-> "x", position |-> Zero])
    /\ lastUser' = UserAction("other", Null)
    /\ UNCHANGED <<pipeState, currentT, ghostVars, normVars, contactCall, animState>>
    /\ Rerender

UpdatedWall(wall, updates) ==
    [wall EXCEPT
        !.axis = IF updates.axis # Null THEN updates.axis[1] ELSE wall.axis,
        !.position = IF updates.position # Null /\ IsFinite(updates.position[1])
                     THEN updates.position[1] ELSE wall.position]
handleUpdateWall(id, updates) ==
    /\ walls' = [i \in DOMAIN walls |->
                    IF walls[i].id # id THEN walls[i] ELSE UpdatedWall(walls[i], updates)]
    /\ lastUser' = UserAction("other", Null)
    /\ UNCHANGED <<pipeState, currentT, ghostVars, normVars, contactCall, animState>>
    /\ Rerender

handleRemoveWall(id) ==
    /\ walls' = SelectSeq(walls, LAMBDA wall : wall.id # id)
    /\ lastUser' = UserAction("other", Null)
    /\ UNCHANGED <<pipeState, currentT, ghostVars, normVars, contactCall, animState>>
    /\ Rerender

WallIds(wallList) == {wallList[i].id : i \in DOMAIN wallList}

NextScene ==
    \/ \E newT \in SceneTimes : handleTChange(newT)
    \/ \E id \in VectorIds(vectors) : handleToggleVectorVisibility(id)
    \/ \E vectorId \in SceneVectorIds, value \in SceneVectorValues :
           handleAddVector(vectorId, value)
    \/ \E id \in WallIdPool : handleAddWall(id)
    \/ \E id \in WallIds(walls), updates \in WallUpdates : handleUpdateWall(id, updates)
    \/ \E id \in WallIds(walls) : handleRemoveWall(id)

SpecScene == InitScene /\ [][NextScene]_vars

-----------------------------------------------------------------------------
(* The animation: play, pause, seek, reset, repeat and the frame callback *)

\* easingFunctions of ./utils/easing: linear, and easeInOutSine(p) =
\* (1 - cos(pi p)) / 2 with the cosine taken from Bhaskara's rational
\* approximation, exact at p = 0, 1/2 and 1; a name that is not a key falls
\* back on linear
CosQuarter(q) ==
    RDiv(RSub(One, RMul(Num(4), RMul(q, q))), RAdd(One, RMul(q, q)))
CosPi(p) ==
    IF RLeq(p, Frac(1, 2)) THEN CosQuarter(p) ELSE RNeg(CosQuarter(RSub(One, p)))
easeInOutSine(p) ==
    IF p = NaN THEN NaN ELSE RDiv(RSub(One, CosPi(p)), Num(2))
easingFunctions(name, p) ==
    IF name = "easeInOutSine" THEN easeInOutSine(p) ELSE p

\* timestamps are in ms; frames are a tick apart or share a timestamp, and
\* the clock is read from BaseTime on when no cycle is running, the callback
\* reading timestamps through their difference to animationStartRef only
TickMs == Num(250)
BaseTime == Num(1000)
MaxElapsed == 5

AnimTimes == {Zero, Frac(1, 100), Frac(1, 50)}
DefaultAnimation ==
    [duration |-> One, startT |-> Zero, endT |-> Frac(1, 50), easing |-> "easeInOutSine"]
AnimConfigs ==
    {DefaultAnimation,
     [DefaultAnimation EXCEPT !.duration = Zero],
     [DefaultAnimation EXCEPT !.easing = "linear"]}

\* variant: the cycle never reaches its end
Progress_BelowOne(elapsed, duration) ==
    RMin(RDiv(elapsed, RMul(duration, Num(1000))), Frac(3, 4))

\* Math.min(elapsed / (duration * 1000), 1)
Progress(elapsed, duration) == RMin(RDiv(elapsed, RMul(duration, Num(1000))), One)

CycleStart(a, config) == IF a.direction = 1 THEN config.startT ELSE config.endT
CycleEnd(a, config) == IF a.direction = 1 THEN config.endT ELSE config.startT

\* the frame callback from elapsed on: the refs and the queue after it, and
\* the t it sets last
AnimateAt(a, config, repeat, progress) ==
    IF RLess(progress, One)
    THEN [anim |-> requestAnimationFrame(a, config, repeat),
          t |-> RAdd(CycleStart(a, config),
                     RMul(easingFunctions(config.easing, progress),
                          RSub(CycleEnd(a, config), CycleStart(a, config))))]
    ELSE IF repeat
    THEN [anim |-> requestAnimationFrame(
                       [a EXCEPT !.direction = IF a.direction = 1 THEN -1 ELSE 1,
                                 !.start = Null],
                       config, repeat),
          t |-> CycleEnd(a, config)]
    ELSE [anim |-> stopAnimation(a), t |-> CycleEnd(a, config)]

Started(a, frame, timestamp) ==
    [a EXCEPT !.pending = a.pending \ {frame},
              !.start = IF a.start = Null \/ a.start = <<Zero>>
                        THEN <<timestamp>> ELSE a.start]

\* animate(timestamp), run by the browser for a pending frame: the closure
\* holds the animationConfig and repeatAnimation of the effect run that
\* requested it
animate(a, frame, timestamp) ==
    AnimateAt(Started(a, frame, timestamp), frame.config, frame.repeat,
              Progress(RSub(timestamp, Started(a, frame, timestamp).start[1]),
                       frame.config.duration))

InitAnim ==
    /\ matrixA = ShearMatrix
    /\ \E built \in PipeEvaluators :
           built.matrix = matrixA /\ built.evaluator = Null /\ evaluator = built.evaluator
    /\ vectors = INITIAL_VECTORS
    /\ activation = InitialActivation
    /\ linearEigenInterpolation = FALSE
    /\ animationConfig = DefaultAnimation
    /\ tPrecision = Frac(1, 100)
    /\ currentT = Zero
    /\ walls = <<>>
    /\ NormIdle
    /\ contactCall = Null
    /\ AnimIdle
    /\ \E r \in {Render(matrixA, evaluator, NoCache, NoneCreated, animationConfig,
                        tPrecision, linearEigenInterpolation, vectors, activation)} :
           /\ samplingConfig = <<r.samplingConfig>>
           /\ matrixSamples = r.matrixSamples
           /\ vectorTransformationsResult = r.result
           /\ \E d \in {Display(r, evaluator, currentT, linearEigenInterpolation, vectors, walls,
                                 animationConfig)} :
                  /\ sceneData = d.sceneData
                  /\ wallContactCounts = d.wallContactCounts
                  /\ effectiveEigenvalues = d.effectiveEigenvalues
                  /\ matrixAt = d.matrixAt
                  /\ matrixAtEigenvalues = d.matrixAtEigenvalues
                  /\ rawTransformedV = d.rawTransformedV
                  /\ cache = d.cache
                  /\ allocated = d.allocated
    /\ firstTime = {}
    /\ firstMatrix = {}
    /\ last = Null

\* the browser runs a pending frame, advance ticks after the frame before
\* it; then the render and the effects
Frame(frame, advance) ==
    /\ frame \in pendingFrames
    /\ \E timestamp \in {IF animationStartRef = Null THEN BaseTime
                         ELSE RAdd(frameTime, RMul(Num(advance), TickMs))} :
           /\ animationStartRef # Null =>
                  RLeq(RSub(timestamp, animationStartRef[1]), RMul(Num(MaxElapsed), TickMs))
           /\ frameTime' = timestamp
           /\ \E step \in {animate(AnimationNow, frame, timestamp)} :
                  /\ currentT' = step.t
                  /\ Animated(AnimationEffect(step.anim, animationConfig, repeatAnimation,
                                              FALSE))
    /\ lastUser' = [lastUser EXCEPT !.frames = IF @ < 2 THEN @ + 1 ELSE @]
    /\ UNCHANGED <<pipeState, walls, ghostVars, normVars, contactCall, repeatAnimation>>
    /\ Rerender

\* a frame with a later timestamp (the first frame of a cycle is one), and
\* a frame with the timestamp of the frame before it
FrameLater == \E frame \in pendingFrames : Frame(frame, 1)
FrameSame == \E frame \in pendingFrames : animationStartRef # Null /\ Frame(frame, 0)

handlePlayPause ==
    /\ IF isPlaying
       THEN /\ currentT' = currentT
            /\ Animated(AnimationEffect(stopAnimation(AnimationNow), animationConfig,
                                        repeatAnimation, FALSE))
            /\ lastUser' = UserAction("pause", Null)
       ELSE /\ currentT' = IF RLeq(animationConfig.endT, currentT)
                           THEN animationConfig.startT ELSE currentT
            /\ Animated(AnimationEffect(
                   [AnimationNow EXCEPT
                       !.isPlaying = TRUE,
                       !.direction = IF RLeq(animationConfig.endT, currentT) THEN 1 ELSE @],
                   animationConfig, repeatAnimation, FALSE))
            /\ lastUser' = UserAction("play", <<currentT>>)
    /\ UNCHANGED <<pipeState, walls, ghostVars, normVars, contactCall, repeatAnimation,
                   frameTime>>
    /\ Rerender

resetTime ==
    /\ currentT' = animationConfig.startT
    /\ Animated(AnimationEffect(stopAnimation(AnimationNow), animationConfig,
                                repeatAnimation, FALSE))
    /\ lastUser' = UserAction("reset", <<animationConfig.startT, Cardinality(pendingFrames)>>)
    /\ UNCHANGED <<pipeState, walls, ghostVars, normVars, contactCall, repeatAnimation,
                   frameTime>>
    /\ Rerender

handleRepeatToggle(enabled) ==
    /\ repeatAnimation' = enabled
    /\ Animated(AnimationEffect(
           [AnimationNow EXCEPT !.direction = IF enabled THEN @ ELSE 1],
           animationConfig, enabled, FALSE))
    /\ lastUser' = UserAction("other", Null)
    /\ UNCHANGED <<pipeState, sceneState, ghostVars, normVars, contactCall, frameTime>>
    /\ Rerender

NextAnim ==
    \/ handlePlayPause
    \/ \E newT \in AnimTimes : handleTChange(newT)
    \/ resetTime
    \/ \E enabled \in BOOLEAN : handleRepeatToggle(enabled)
    \/ \E config \in AnimConfigs : setAnimationConfig(config)
    \/ FrameLater
    \/ FrameSame

SpecAnim == InitAnim /\ [][NextAnim]_vars

\* frames keep being delivered, with timestamps that advance
SpecAnimFair == SpecAnim /\ WF_vars(FrameLater)

-----------------------------------------------------------------------------
(* Matrix adjustment: scalar, exponent and determinant normalization *)

\* Math.round and Math.max(1, .) on numbers
Round(x) == IF IsFinite(x) THEN Num(Floor(RAdd(x, Frac(1, 2)))) ELSE x
SafeScalar(scalar) == IF IsFinite(scalar) THEN scalar ELSE One
SafeExponent(exponent) ==
    IF RLess(One, Round(IF IsFinite(exponent) THEN exponent ELSE One))
    THEN Round(IF IsFinite(exponent) THEN exponent ELSE One)
    ELSE One

\* math.pow(matrix, n) for an integer n >= 1
RECURSIVE MatrixPower(_, _)
MatrixPower(M, n) == IF n = 1 THEN M ELSE MatMul(MatrixPower(M, n - 1), M)

\* Math.cbrt, exact on the cubes the model meets
IntCbrt(n) == CHOOSE k \in 0..n : k * k * k = n
Cbrt(x) == <<IntCbrt(x[1]), IntCbrt(x[2])>>

NORMALIZATION_WARNING ==
    "Normalization requires a non-zero determinant. Matrix left unnormalized."

Prepared(adjusted, scalar, exponent, normalize, determinantBefore) ==
    IF normalize /\ AbsBelow(determinantBefore, 100000000)
    THEN [matrix |-> <<adjusted>>, adjustedMatrix |-> adjusted,
          scalar |-> scalar, exponent |-> exponent,
          normalizationApplied |-> FALSE, normalizationFailed |-> TRUE,
          determinantBefore |-> <<determinantBefore>>, determinantAfter |-> Null,
          error |-> Null]
    ELSE IF normalize
    THEN [matrix |-> <<MatScale(adjusted, RInv(Cbrt(RAbs(determinantBefore))))>>,
          adjustedMatrix |-> adjusted,
          scalar |-> scalar, exponent |-> exponent,
          normalizationApplied |-> TRUE, normalizationFailed |-> FALSE,
          determinantBefore |-> <<determinantBefore>>,
          determinantAfter |->
              <<Det(MatScale(adjusted, RInv(Cbrt(RAbs(determinantBefore)))))>>,
          error |-> Null]
    ELSE [matrix |-> <<adjusted>>, adjustedMatrix |-> adjusted,
          scalar |-> scalar, exponent |-> exponent,
          normalizationApplied |-> FALSE, normalizationFailed |-> FALSE,
          determinantBefore |-> <<determinantBefore>>, determinantAfter |-> Null,
          error |-> Null]

PreparedFrom(adjusted, scalar, exponent, normalize) ==
    CHOOSE p \in
        {Prepared(adjusted, scalar, exponent, normalize, determinantBefore) :
            determinantBefore \in {Det(adjusted)}} : TRUE

\* the matrixPreparation memo for finite entries, where math.js does not throw
PrepareMatrix(A, scalar, exponent, normalize) ==
    CHOOSE p \in
        {PreparedFrom(adjusted, SafeScalar(scalar), SafeExponent(exponent), normalize) :
            adjusted \in {MatrixPower(MatScale(A, SafeScalar(scalar)),
                                      SafeExponent(exponent)[1])}} : TRUE

\* the two effects that follow a commit.  `before` and `after` are the
\* committed [normalizeMatrix, normalizationWarning, preparation] of the
\* previous and of this render; matrixDeps tells whether matrixA,
\* matrixScalar or matrixExponent changed.  The result is the state the
\* effects' updates leave, the later update of a state winning.
NormalizationDeps(committed) ==
    <<committed.normalizeMatrix, committed.preparation.normalizationFailed,
      committed.preparation.normalizationApplied>>
AfterNormalizationEffect(before, after) ==
    IF NormalizationDeps(before) = NormalizationDeps(after) THEN after
    ELSE IF after.normalizeMatrix /\ after.preparation.normalizationFailed
    THEN [after EXCEPT !.normalizationWarning = <<NORMALIZATION_WARNING>>,
                       !.normalizeMatrix = FALSE]
    ELSE IF after.normalizeMatrix /\ after.preparation.normalizationApplied
    THEN [after EXCEPT !.normalizationWarning = Null]
    ELSE after
\* the effect on [matrixA, matrixScalar, matrixExponent] runs second
AfterEffects(before, after, matrixDeps) ==
    IF matrixDeps
    THEN [AfterNormalizationEffect(before, after) EXCEPT !.normalizationWarning = Null]
    ELSE AfterNormalizationEffect(before, after)

Committed(A, scalar, exponent, normalize, warning) ==
    [normalizeMatrix |-> normalize, normalizationWarning |-> warning,
     preparation |-> PrepareMatrix(A, scalar, exponent, normalize)]
Recommitted(A, scalar, exponent, updated) ==
    Committed(A, scalar, exponent, updated.normalizeMatrix, updated.normalizationWarning)

\* renders and effects repeated until the effects change no state
RECURSIVE Settle(_, _, _, _, _, _)
Settle(A, scalar, exponent, before, after, matrixDeps) ==
    CHOOSE settled \in
        {IF updated.normalizeMatrix = after.normalizeMatrix
              /\ updated.normalizationWarning = after.normalizationWarning
         THEN after
         ELSE Settle(A, scalar, exponent, after,
                     Recommitted(A, scalar, exponent, updated), FALSE) :
            updated \in {AfterEffects(before, after, matrixDeps)}} : TRUE

\* what is committed in the current state
CommittedNow ==
    Committed(matrixA, matrixScalar, matrixExponent, normalizeMatrix, normalizationWarning)
matrixPreparation == CommittedNow.preparation

\* the state after a handler has set A, scalar, exponent, normalize and
\* warning, the render and the effects have run
SettledFrom(before, A, scalar, exponent, normalize, warning, matrixDeps) ==
    \E settled \in {Settle(A, scalar, exponent, before,
                           Committed(A, scalar, exponent, normalize, warning),
                           matrixDeps)} :
        /\ normalizeMatrix' = settled.normalizeMatrix
        /\ normalizationWarning' = settled.normalizationWarning
Requested(A, scalar, exponent, normalize, how) ==
    IF normalize /\ PrepareMatrix(A, scalar, exponent, TRUE).normalizationFailed
    THEN <<how>> ELSE Null

SingularMatrix == Mat3(LAMBDA i, j : IF i = j /\ i < 3 THEN One ELSE Zero)
ScaleUniform == MatScale(Identity3, Frac(3, 2))
\* matrices, scalars and exponents whose adjusted determinant is 0 or a cube
StretchMatrix == <<<<Num(2), Zero, Zero>>, <<Zero, Frac(1, 2), Zero>>, Vec(0, 0, 1)>>
NormMatrices == {Identity3, ShearMatrix, ScaleUniform, StretchMatrix, SingularMatrix}
NormScalars == {Zero, Frac(1, 2), One, Num(2), Num(-1), Num(3), NaN}
NormExponents == {Zero, One, Frac(3, 2), NaN}

InitNorm ==
    /\ matrixA \in NormMatrices
    /\ evaluator = Null
    /\ cache = NoCache
    /\ allocated = NoneCreated
    /\ firstTime = {}
    /\ firstMatrix = {}
    /\ last = Null
    /\ animationConfig = [startT |-> Zero, endT |-> Num(2)]
    /\ tPrecision = Frac(1, 100)
    /\ samplingConfig = Null
    /\ PipelineIdle
    /\ UiIdle

notNormVars ==
    <<evaluator, cache, allocated, ghostVars, planVars, pipeVars, sceneVars, contactCall,
      animVars>>

\* handleMatrixChange with a new array, followed by the render and effects
NormMatrixChange(newMatrix) ==
    /\ matrixA' = newMatrix
    /\ SettledFrom(CommittedNow, newMatrix, matrixScalar, matrixExponent,
                   normalizeMatrix, normalizationWarning, TRUE)
    /\ normalizationRequest' =
          Requested(newMatrix, matrixScalar, matrixExponent, normalizeMatrix, "change")
    /\ UNCHANGED <<matrixScalar, matrixExponent, notNormVars>>

handleMatrixScalarChange(value) ==
    /\ matrixScalar' = SafeScalar(value)
    /\ SettledFrom(CommittedNow, matrixA, matrixScalar', matrixExponent,
                   normalizeMatrix, normalizationWarning, matrixScalar' # matrixScalar)
    /\ normalizationRequest' =
          IF matrixScalar' = matrixScalar THEN normalizationRequest
          ELSE Requested(matrixA, matrixScalar', matrixExponent, normalizeMatrix, "change")
    /\ UNCHANGED <<matrixA, matrixExponent, notNormVars>>

handleMatrixExponentChange(value) ==
    /\ matrixExponent' = SafeExponent(value)
    /\ SettledFrom(CommittedNow, matrixA, matrixScalar, matrixExponent',
                   normalizeMatrix, normalizationWarning,
                   matrixExponent' # matrixExponent)
    /\ normalizationRequest' =
          IF matrixExponent' = matrixExponent THEN normalizationRequest
          ELSE Requested(matrixA, matrixScalar, matrixExponent', normalizeMatrix, "change")
    /\ UNCHANGED <<matrixA, matrixScalar, notNormVars>>

handleNormalizeToggle(enabled) ==
    /\ SettledFrom(CommittedNow, matrixA, matrixScalar, matrixExponent, enabled,
                   IF enabled THEN normalizationWarning ELSE Null, FALSE)
    /\ normalizationRequest' =
          IF enabled = normalizeMatrix /\ (enabled \/ normalizationWarning = Null)
          THEN normalizationRequest
          ELSE Requested(matrixA, matrixScalar, matrixExponent, enabled, "toggle")
    /\ UNCHANGED <<matrixA, matrixScalar, matrixExponent, notNormVars>>

NextNorm ==
    \/ \E newMatrix \in NormMatrices : NormMatrixChange(newMatrix)
    \/ \E value \in NormScalars : handleMatrixScalarChange(value)
    \/ \E value \in NormExponents : handleMatrixExponentChange(value)
    \/ \E enabled \in BOOLEAN : handleNormalizeToggle(enabled)

SpecNorm == InitNorm /\ [][NextNorm]_vars

-----------------------------------------------------------------------------
(* computeContact as a function of its arguments *)

\* coordinates along the wall axis: on the wall, within 1e-6 of it, within
\* and at the contact tolerance, and beyond it on either side
ContactCoordinates ==
    {Num(-1), Frac(-7, 100), Frac(-1, 2000000), Zero, Frac(1, 2000000), Frac(1, 50),
     Frac(2, 25), One}
ContactPoints == {<<a, b, Zero>> : a \in ContactCoordinates, b \in {Zero, One}}
ContactWalls ==
    {[id |-> 1, axis |-> "x", position |-> Zero],
     [id |-> 2, axis |-> "y", position |-> Frac(1, 2)]}

InitContact ==
    /\ contactCall \in
          [wall : ContactWalls, current : ContactPoints,
           previous : {Null} \cup {<<p>> : p \in ContactPoints},
           called : {FALSE}, result : {Null}]
    /\ matrixA = ShearMatrix
    /\ evaluator = Null
    /\ cache = NoCache
    /\ allocated = NoneCreated
    /\ firstTime = {}
    /\ firstMatrix = {}
    /\ last = Null
    /\ animationConfig = [startT |-> Zero, endT |-> Num(2)]
    /\ tPrecision = Frac(1, 100)
    /\ samplingConfig = Null
    /\ PipelineIdle
    /\ SceneIdle
    /\ NormIdle
    /\ AnimIdle

ComputeContact ==
    /\ ~contactCall.called
    /\ contactCall' =
          [contactCall EXCEPT
              !.called = TRUE,
              !.result = computeContact(contactCall.wall, contactCall.current,
                                        contactCall.previous)]
    /\ UNCHANGED <<evalVars, planVars, pipeVars, sceneVars, normVars, animVars>>

NextContact == ComputeContact

SpecContact == InitContact /\ [][NextContact]_vars

-----------------------------------------------------------------------------
(* Properties of the error paths (SpecPipe) *)

MatrixUnavailable == evaluator = Null
ActivationError == activation.error # Null /\ activation.error[1] # ""
ErrorIs(message) == vectorTransformationsResult.error = <<message>>
NothingDerived ==
    /\ vectorTransformationsResult.transformations = Null
    /\ sceneData = <<>>
    /\ matrixAt = Null
    /\ effectiveEigenvalues = Null
    /\ matrixAtEigenvalues = Null
    /\ rawTransformedV = Null

\* C11 as stated: whenever the evaluator is unavailable the trajectory
\* result is the error "Matrix unavailable." with no transformations, the
\* scene is empty and the matrix at t, both eigenvalue lists and the raw
\* transformed vector are null, whatever the activation, range and vectors.
C11_MatrixUnavailable ==
    MatrixUnavailable => ErrorIs("Matrix unavailable.") /\ NothingDerived

\* C11, amended: whenever the evaluator is unavailable nothing is derived
\* (no transformations, empty scene, null matrix at t, eigenvalues and raw
\* vector) whatever the other inputs; the error is "Matrix unavailable."
\* unless the activation carries an error, which is reported instead.
C11_UnavailableAfterActivation ==
    MatrixUnavailable =>
        /\ NothingDerived
        /\ IF ActivationError
           THEN ErrorIs(<<"Activation Function Error: ", activation.error[1]>>)
           ELSE ErrorIs("Matrix unavailable.")

C11_Witness ==
    /\ MatrixUnavailable
    /\ ~ActivationError
    /\ RLeq(samplingConfig[1].range, Zero)
    /\ Len(vectors) = 2
    /\ ErrorIs("Matrix unavailable.")
    /\ NothingDerived

InvalidRange == RLeq(RSub(animationConfig.endT, animationConfig.startT), Zero)
NothingSampled ==
    /\ samplingConfig[1].times = <<>>
    /\ matrixSamples \in {Null, <<<<>>>>}
    /\ vectorTransformationsResult.transformations = Null
    /\ sceneData = <<>>

\* C12 as stated: when endT <= startT the result carries the error
\* "Animation End Time must be greater than Start Time.", no matrix is
\* evaluated at a sample time and no trajectory or scene record exists.
C12_InvalidRangeReported ==
    InvalidRange =>
        /\ ErrorIs("Animation End Time must be greater than Start Time.")
        /\ NothingSampled

\* C12, amended: when endT <= startT nothing is sampled and no trajectory
\* or scene record exists; the error is the invalid-time-range message when
\* the evaluator is available and the activation carries no error, and
\* otherwise the activation error or, failing that, "Matrix unavailable.".
C12_InvalidRangeAfterMatrix ==
    InvalidRange =>
        /\ NothingSampled
        /\ IF ActivationError
           THEN ErrorIs(<<"Activation Function Error: ", activation.error[1]>>)
           ELSE IF MatrixUnavailable THEN ErrorIs("Matrix unavailable.")
           ELSE ErrorIs("Animation End Time must be greater than Start Time.")

C12_Witness ==
    /\ InvalidRange
    /\ animationConfig.endT = animationConfig.startT
    /\ ~MatrixUnavailable
    /\ ~ActivationError
    /\ Len(vectors) > 0
    /\ matrixSamples = <<<<>>>>
    /\ matrixAt # Null
    /\ ErrorIs("Animation End Time must be greater than Start Time.")

-----------------------------------------------------------------------------
(* Properties of the matrix adjustment (SpecNorm) *)

LeftUnnormalized ==
    /\ matrixPreparation.matrix = <<matrixPreparation.adjustedMatrix>>
    /\ normalizeMatrix = FALSE

\* C13 as stated: once the effects have run after a user change that asked
\* for normalization while |det| < 1e-8 (the flag switched on, or the
\* matrix, scalar or exponent changed while it is on), the effective matrix
\* is the un-normalized adjusted matrix, the flag is false and the warning
\* is non-null, until the next user change.
C13_FailedNormalizationWarns ==
    normalizationRequest # Null =>
        LeftUnnormalized /\ normalizationWarning # Null

\* what does hold: the matrix is left un-normalized and the flag is reset
\* on both paths, and the warning is shown when the flag was switched on
NormalizationResetOnFailure ==
    normalizationRequest # Null =>
        /\ LeftUnnormalized
        /\ normalizationRequest = <<"toggle">> =>
              normalizationWarning = <<NORMALIZATION_WARNING>>

-----------------------------------------------------------------------------
(* Properties of computeContact (SpecContact) *)

ContactCalled == contactCall # Null /\ contactCall.called
Offset(point) ==
    RSub(point[AxisIndex(contactCall.wall.axis)], contactCall.wall.position)
CurrentOffset == Offset(contactCall.current)
PreviousOffset == Offset(contactCall.previous[1])
WithinTolerance(offset) == RLeq(RAbs(offset), Frac(7, 100))
CurrentWithin == WithinTolerance(CurrentOffset)
PreviousWithin == contactCall.previous # Null /\ WithinTolerance(PreviousOffset)
OppositeSigns ==
    /\ contactCall.previous # Null
    /\ Sign(PreviousOffset) * Sign(CurrentOffset) = -1
Projected(point) ==
    [point EXCEPT ![AxisIndex(contactCall.wall.axis)] = contactCall.wall.position]
CrossingRatio ==
    RDiv(RSub(contactCall.wall.position,
              contactCall.previous[1][AxisIndex(contactCall.wall.axis)]),
         RSub(contactCall.current[AxisIndex(contactCall.wall.axis)],
              contactCall.previous[1][AxisIndex(contactCall.wall.axis)]))
Interpolated ==
    [i \in 1..3 |->
        RAdd(contactCall.previous[1][i],
             RMul(CrossingRatio, RSub(contactCall.current[i], contactCall.previous[1][i])))]
ContactAt(point) ==
    /\ contactCall.result # Null
    /\ contactCall.result[1].point = point
    /\ contactCall.result[1].wallId = contactCall.wall.id

\* C14: computeContact applies three rules, the first that matches winning:
\* current within 0.07 of the wall gives current projected onto the wall;
\* otherwise previous within 0.07 gives previous projected; otherwise
\* offsets of opposite signs give the interpolation at ratio
\* (position - previous) / (current - previous), projected; otherwise there
\* is no contact.
C14_RulesInPriorityOrder ==
    ContactCalled =>
        IF CurrentWithin THEN ContactAt(Projected(contactCall.current))
        ELSE IF PreviousWithin THEN ContactAt(Projected(contactCall.previous[1]))
        ELSE IF OppositeSigns THEN ContactAt(Projected(Interpolated))
        ELSE contactCall.result = Null

\* both endpoints within tolerance and on opposite sides: the current point wins
C14_Witness ==
    /\ ContactCalled
    /\ CurrentWithin /\ PreviousWithin /\ OppositeSigns
    /\ contactCall.current # contactCall.previous[1]
    /\ ContactAt(Projected(contactCall.current))
\* a crossing strictly between two distinct points, off the midpoint
C14_CrossingWitness ==
    /\ ContactCalled
    /\ ~CurrentWithin /\ ~PreviousWithin /\ OppositeSigns
    /\ CrossingRatio = Frac(25, 27)
    /\ contactCall.current[2] # contactCall.previous[1][2]
    /\ ContactAt(Projected(Interpolated))

NearZero(offset) == RLeq(RAbs(offset), Frac(1, 1000000))
Direction == contactCall.result[1].normalDirection
SignOf(offset) == IF RLeq(Zero, offset) THEN 1 ELSE -1
\* the offset of the point the contact was found at, and of the other point
PrimaryOffset ==
    IF CurrentWithin THEN CurrentOffset
    ELSE IF PreviousWithin THEN PreviousOffset
    ELSE CurrentOffset
SecondaryOffset ==
    IF ~CurrentWithin /\ PreviousWithin THEN CurrentOffset ELSE PreviousOffset

\* C15 as stated: the direction sign of every contact is +1 if previous,
\* the point the trajectory comes from, has a positive signed offset from
\* the wall and -1 otherwise, and +1 when the offsets consulted are all
\* within 1e-6 of zero.
C15_SignOfPreviousSide ==
    ContactCalled /\ contactCall.result # Null =>
        Direction =
            IF NearZero(CurrentOffset)
                  /\ (contactCall.previous # Null => NearZero(PreviousOffset))
            THEN 1
            ELSE IF contactCall.previous # Null /\ RLess(Zero, PreviousOffset) THEN 1
            ELSE -1

\* C15, amended: the direction sign of every contact is the sign (+1 for
\* positive, -1 for negative) of the offset of the point the contact is
\* found at -- current under the current-point and the sign-crossing rule,
\* previous under the previous-point rule -- when that offset exceeds 1e-6
\* in magnitude; otherwise it is the sign of the other point's offset when
\* there is one exceeding 1e-6; and +1 when all offsets consulted are
\* within 1e-6 of zero.
C15_SignOfContactSide ==
    ContactCalled /\ contactCall.result # Null =>
        Direction =
            IF ~NearZero(PrimaryOffset) THEN SignOf(PrimaryOffset)
            ELSE IF contactCall.previous # Null /\ ~NearZero(SecondaryOffset)
            THEN SignOf(SecondaryOffset)
            ELSE 1

\* the crossing from the negative to the positive side has sign +1
C15_Witness ==
    /\ ContactCalled
    /\ ~CurrentWithin /\ ~PreviousWithin /\ OppositeSigns
    /\ RLess(PreviousOffset, Zero)
    /\ contactCall.result # Null
    /\ Direction = 1
\* both offsets negative and within 1e-6: the sign is +1
C15_TieWitness ==
    /\ ContactCalled
    /\ contactCall.previous # Null
    /\ RLess(CurrentOffset, Zero) /\ NearZero(CurrentOffset)
    /\ RLess(PreviousOffset, Zero) /\ NearZero(PreviousOffset)
    /\ Direction = 1
\* the sign falls back to the other point's offset
C15_FallbackWitness ==
    /\ ContactCalled
    /\ contactCall.previous # Null
    /\ CurrentOffset = Zero
    /\ RLess(PreviousOffset, Zero) /\ ~NearZero(PreviousOffset)
    /\ Direction = -1


-----------------------------------------------------------------------------
(* Properties of the scene (SpecScene) *)

\* the scene is drawn: the paths exist and the range is positive
SceneShown ==
    /\ vectorTransformationsResult.transformations # Null
    /\ RLess(Zero, RSub(animationConfig.endT, animationConfig.startT))
SceneProgress ==
    RDiv(RSub(currentT, animationConfig.startT),
         RSub(animationConfig.endT, animationConfig.startT))
\* the current step of the vector produces a contact with the wall
Touches(vector, wall) ==
    /\ SceneShown
    /\ SceneEntry(vector, vectorTransformationsResult.transformations[1], SceneProgress,
                  <<wall>>).contacts # <<>>
CountIs(wallId, n) ==
    IF wallId \in DOMAIN wallContactCounts THEN wallContactCounts[wallId] = n ELSE n = 0

\* C16 as stated: for every wall, its count is the number of vectors of the
\* whole vector list whose current step touches that wall, and a wall absent
\* from the counts is touched by no vector.
C16_CountsOverAllVectors ==
    \A i \in DOMAIN walls :
        CountIs(walls[i].id,
                Cardinality({j \in DOMAIN vectors : Touches(vectors[j], walls[i])}))

\* C16 amended: the counts are kept per wall id and over the visible vectors
\* only: the count of a wall id is the number of pairs of a visible vector and
\* a wall of that id that the vector's current step touches, an id absent
\* from the counts has no such pair, and every counted id is the id of a wall.
C16_CountsOverVisibleVectors ==
    /\ \A i \in DOMAIN walls :
           CountIs(walls[i].id,
                   Cardinality({p \in (DOMAIN vectors) \X (DOMAIN walls) :
                                   /\ vectors[p[1]].visible
                                   /\ walls[p[2]].id = walls[i].id
                                   /\ Touches(vectors[p[1]], walls[p[2]])}))
    /\ DOMAIN wallContactCounts \subseteq WallIds(walls)

\* a wall touched by a visible vector and by a hidden one
C16_Witness ==
    \E i \in DOMAIN walls :
        /\ walls[i].id \in DOMAIN wallContactCounts
        /\ \E j \in DOMAIN vectors : vectors[j].visible /\ Touches(vectors[j], walls[i])
        /\ \E j \in DOMAIN vectors : ~vectors[j].visible /\ Touches(vectors[j], walls[i])
\* two walls of one id, both touched by the same visible vector
C16_SharedIdWitness ==
    \E i, k \in DOMAIN walls :
        /\ i # k
        /\ walls[i].id = walls[k].id
        /\ wallContactCounts = (walls[i].id :> 2)
        /\ \E j \in DOMAIN vectors :
              /\ vectors[j].visible
              /\ Touches(vectors[j], walls[i])
              /\ Touches(vectors[j], walls[k])

\* the index k of the claim: floor(progress * (N - 1)) clamped to [0, N - 1]
ClampedStep(n) ==
    IF Floor(RMul(SceneProgress, Num(n - 1))) < 0 THEN 0
    ELSE IF Floor(RMul(SceneProgress, Num(n - 1))) > n - 1 THEN n - 1
    ELSE Floor(RMul(SceneProgress, Num(n - 1)))
FullPathOf(entry) ==
    vectorTransformationsResult.transformations[1][entry.id].fullPath
PathIsClampedPrefix(entry) ==
    /\ entry.path = SubSeq(FullPathOf(entry), 1, ClampedStep(Len(FullPathOf(entry))) + 1)
    /\ entry.interpolatedVector
          = FullPathOf(entry)[ClampedStep(Len(FullPathOf(entry))) + 1]

\* C20 as stated: at every reachable t, also below startT and above endT,
\* the displayed path of every visible vector is the prefix fullPath[0..k]
\* with k = floor((t - startT)/(endT - startT) * (N - 1)) clamped to
\* [0, N - 1] and the current position is fullPath[k]; for t <= startT the
\* position is the initial point and the path has at most one point.
C20_PathIsClampedPrefix ==
    SceneShown =>
        \A i \in DOMAIN sceneData :
            /\ PathIsClampedPrefix(sceneData[i])
            /\ RLeq(currentT, animationConfig.startT) =>
                  /\ sceneData[i].interpolatedVector = sceneData[i].initialVector
                  /\ Len(sceneData[i].path) <= 1

\* from startT on, the path is the clamped prefix
PathIsPrefixFromStart ==
    SceneShown /\ RLeq(animationConfig.startT, currentT) =>
        \A i \in DOMAIN sceneData : PathIsClampedPrefix(sceneData[i])

-----------------------------------------------------------------------------
(* Properties of the animation (SpecAnim, SpecAnimFair) *)

\* only frames have run since the latest user action, which was the action
Since(action) == lastUser.action = action
PositiveDuration == RLess(Zero, animationConfig.duration)
\* the animation has stopped by itself at the end of the range
Stopped ==
    /\ ~isPlaying
    /\ currentT = animationConfig.endT
    /\ pendingFrames = {}
    /\ animationFrameRef = Null
    /\ animationStartRef = Null
    /\ animationDirectionRef = 1

\* C17: playback started with repeat disabled and a positive duration, and
\* frames delivered with timestamps that advance: unless a user action
\* intervenes, the animation eventually stops by itself, with isPlaying
\* false, t = endT, no frame scheduled, the start timestamp cleared and the
\* direction 1.
C17_PlaybackEnds ==
    (Since("play") /\ isPlaying /\ ~repeatAnimation /\ PositiveDuration)
        ~> (~Since("play") \/ Stopped)
\* playback that ran to its end over at least two frames
C17_Witness ==
    /\ Since("play")
    /\ lastUser.frames = 2
    /\ ~repeatAnimation
    /\ PositiveDuration
    /\ Stopped
\* while it plays there is exactly one frame scheduled, the one the ref holds
OneFramePending ==
    IF isPlaying
    THEN \E frame \in pendingFrames :
             pendingFrames = {frame} /\ animationFrameRef = <<frame.id>>
    ELSE pendingFrames = {}

\* C18: after handleTChange(newT) or resetTime, and until the next user
\* action, isPlaying is false, no frame is pending, no frame callback runs
\* and t is the value just set (newT, or startT for resetTime).
C18_ManualTimeOverrides ==
    Since("seek") \/ Since("reset") =>
        /\ ~isPlaying
        /\ pendingFrames = {}
        /\ lastUser.frames = 0
        /\ currentT = lastUser.value[1]
\* a seek that cancelled a pending frame of a running cycle
C18_Witness ==
    /\ Since("seek")
    /\ lastUser.value[2] = 1
    /\ currentT = lastUser.value[1]
    /\ frameTime # Zero
\* a reset that cancelled a pending frame, t having left startT
C18_ResetWitness ==
    /\ Since("reset")
    /\ lastUser.value[2] = 1
    /\ currentT = animationConfig.startT
    /\ frameTime # Zero

\* C19 as stated: whenever handlePlayPause starts playback the direction is
\* 1 and no start timestamp is held, and the first frame sets t to startT,
\* whatever t was while paused.
C19_FirstFrameAtStart ==
    /\ Since("play") /\ lastUser.frames = 0 =>
           /\ isPlaying
           /\ animationDirectionRef = 1
           /\ animationStartRef = Null
    /\ Since("play") /\ lastUser.frames = 1 => currentT = animationConfig.startT

\* C19 amended: the same, the first frame setting t to startT when the
\* duration is positive; with a duration of 0 the first frame ends the cycle
\* and leaves t at endT, playback going on only when repeat is enabled.
C19_FirstFrameAtStartOfTimedCycle ==
    /\ Since("play") /\ lastUser.frames = 0 =>
           /\ isPlaying
           /\ animationDirectionRef = 1
           /\ animationStartRef = Null
    /\ Since("play") /\ lastUser.frames = 1 =>
           IF PositiveDuration
           THEN /\ currentT = animationConfig.startT
                /\ isPlaying
                /\ animationDirectionRef = 1
           ELSE currentT = animationConfig.endT /\ isPlaying = repeatAnimation
\* the first frame after a play from a t other than startT
C19_Witness ==
    /\ Since("play")
    /\ lastUser.frames = 1
    /\ PositiveDuration
    /\ lastUser.value[1] # animationConfig.startT
    /\ currentT = animationConfig.startT
\* the first frame of a cycle of duration 0
C19_UntimedWitness ==
    /\ Since("play")
    /\ lastUser.frames = 1
    /\ ~PositiveDuration
    /\ currentT = animationConfig.endT
=============================================================================
